---- MODULE Spec2Model ----
(***************************************************************************)
(* Camofleet runner: the VNC resource pool and the session manager of      *)
(* runner/src/camoufox_runner/sessions.py, as a state machine.             *)
(*                                                                         *)
(* The manager runs on one asyncio event loop: code between two awaits     *)
(* that really suspend is one atomic step.  No lock of the module is held  *)
(* across a suspending await, so every `async with self._lock` block,      *)
(* together with the straight-line code around it, is part of one step.    *)
(* A step of the model is therefore the code from one suspension point     *)
(* (subprocess launch, subprocess wait, sleep, awaited task) to the next.  *)
(***************************************************************************)
EXTENDS Integers, Sequences, FiniteSets, TLC

----------------------------------------------------------------------------
(* Bounds of the model *)

\* largest size of a configured display / RFB-port / WS-port range
MaxSpan == 3

\* size of the three ranges of the runner's pool in the session-manager model
RunnerSpan == 2

\* sessions created in one run
MaxSessions == 2

\* sessions created in one run of the prewarming runner
PrewarmSessions == 1

\* create() calls suspended in a launch at the same time
MaxCreating == 1

\* "camoufox-prewarm-kick" tasks tracked while they wait for their first run
MaxKicks == 1

\* the clock runs from 0 to MaxTime
MaxTime == 1

\* idle_ttl_seconds of a request ranges over 1..MaxTtl clock units
MaxTtl == 1

(* Program constants *)

\* RunnerSettings.prewarm_headless and RunnerSettings.prewarm_vnc
PrewarmHeadless == 1
PrewarmVnc == 1

\* SessionDefaults.idle_ttl_seconds, in clock units
DefaultIdleTtl == MaxTtl

VncDisplayMin == 100
VncPortMin == 5900
VncWsPortMin == 6900

\* the absent slot / absent VncSession (Python None)
None == [display |-> 0, vnc_port |-> 0, ws_port |-> 0]

----------------------------------------------------------------------------
(* VncResourcePool *)

Min2(a, b) == IF a <= b THEN a ELSE b

RangeSeq(lo, n) == [i \in 1..n |-> lo + i - 1]

SeqElems(s) == {s[i] : i \in 1..Len(s)}

NoDup(s) == \A i, j \in 1..Len(s) : i # j => s[i] # s[j]

VncSlot(d, v, w) == [display |-> d, vnc_port |-> v, ws_port |-> w]

\* VncResourcePool.__init__: three deques from the configured ranges, no active slot
NewPool(c) ==
  [display_pool |-> RangeSeq(VncDisplayMin, c.nd),
   vnc_ports    |-> RangeSeq(VncPortMin, c.nv),
   ws_ports     |-> RangeSeq(VncWsPortMin, c.nw),
   active       |-> {}]

\* capacity = min(display_span, vnc_span, ws_span)
Capacity(c) == Min2(c.nd, Min2(c.nv, c.nw))

\* a guard that would keep one element of every deque in reserve
CanAcquireSpare(p) ==
  /\ Len(p.display_pool) >= 2
  /\ Len(p.vnc_ports) >= 2
  /\ Len(p.ws_ports) >= 2

\* the guard of acquire(): all three deques non-empty
CanAcquire(p) ==
  /\ p.display_pool # << >>
  /\ p.vnc_ports # << >>
  /\ p.ws_ports # << >>

\* the slot acquire() builds: popleft() of each deque
AcquiredSlot(p) == VncSlot(Head(p.display_pool), Head(p.vnc_ports), Head(p.ws_ports))

\* the pool after a successful acquire()
PoolAcquire(p) ==
  [display_pool |-> Tail(p.display_pool),
   vnc_ports    |-> Tail(p.vnc_ports),
   ws_ports     |-> Tail(p.ws_ports),
   active       |-> p.active \cup {AcquiredSlot(p)}]

\* a release that would not test whether the slot is active
ReleaseUnchecked(p, slot) ==
  IF slot = None THEN p
  ELSE [display_pool |-> Append(p.display_pool, slot.display),
        vnc_ports    |-> Append(p.vnc_ports, slot.vnc_port),
        ws_ports     |-> Append(p.ws_ports, slot.ws_port),
        active       |-> p.active \ {slot}]

\* a release that would return the elements and keep the slot active
ReleaseKeepActive(p, slot) ==
  IF slot = None \/ slot \notin p.active THEN p
  ELSE [display_pool |-> Append(p.display_pool, slot.display),
        vnc_ports    |-> Append(p.vnc_ports, slot.vnc_port),
        ws_ports     |-> Append(p.ws_ports, slot.ws_port),
        active       |-> p.active]

\* a release that would put the elements back at the head (appendleft)
ReleaseLifo(p, slot) ==
  IF slot = None \/ slot \notin p.active THEN p
  ELSE [display_pool |-> <<slot.display>> \o p.display_pool,
        vnc_ports    |-> <<slot.vnc_port>> \o p.vnc_ports,
        ws_ports     |-> <<slot.ws_port>> \o p.ws_ports,
        active       |-> p.active \ {slot}]

\* the pool after release(slot): None and slots that are not active change nothing
PoolRelease(p, slot) ==
  IF slot = None \/ slot \notin p.active THEN p
  ELSE [display_pool |-> Append(p.display_pool, slot.display),
        vnc_ports    |-> Append(p.vnc_ports, slot.vnc_port),
        ws_ports     |-> Append(p.ws_ports, slot.ws_port),
        active       |-> p.active \ {slot}]

\* every slot value a caller can pass to release(): any triple over the ranges
AllSlots(c) ==
  {VncSlot(d, v, w) : d \in SeqElems(RangeSeq(VncDisplayMin, c.nd)),
                      v \in SeqElems(RangeSeq(VncPortMin, c.nv)),
                      w \in SeqElems(RangeSeq(VncWsPortMin, c.nw))}

----------------------------------------------------------------------------
VARIABLES
  cfg,               \* RunnerSettings and the scope of the run (sessions, clock, start_url)
  vnc_pool,          \* the VncResourcePool
  resp,              \* what the call that ended in this step returned or raised
  sessions,          \* SessionManager._sessions: the ids in the table
  handles,           \* every SessionHandle built so far, by id
  prewarm_headless,  \* SessionManager._prewarm_headless
  prewarm_vnc,       \* SessionManager._prewarm_vnc
  servers,           \* the browser-server child processes that run
  chains,            \* slots whose Xvfb/x11vnc/websockify processes run
  creating,          \* create() calls suspended in a launch
  topups,            \* _top_up_once() runs suspended in a launch
  kicks,             \* "camoufox-prewarm-kick" tasks created and not yet run
  prewarm_task,      \* the _prewarm_loop task
  deleting,          \* ids whose teardown runs inside a delete() call
  reaper,            \* the _cleanup_loop task
  closer,            \* the close() call
  now,               \* the clock
  workers,           \* control plane: settings.workers
  rr_index,          \* control plane: AppState._rr_index
  picks,             \* control plane: what the pick_worker calls so far returned
  listing,           \* control plane: the GET /sessions request in progress
  bridge,            \* shared: one bridge_websocket call
  gateway,           \* VNC gateway: its connection accounting and connections
  router,            \* vnc-gateway: the browser's cookie and the requests it has made
  rewriter,          \* control plane: one payload under apply_vnc_overrides
  clients,           \* control plane: the cached worker HTTP clients (service._CLIENTS)
  chain,             \* runner: one VNC chain from start_session to stop_session
  prewarmer,         \* runner: PrewarmPool (camoufox_runner/prewarm.py) and the processes it started
  watchdog           \* worker-vnc: idle_watchdog of one proxied connection, with the clock

poolVars == <<cfg, vnc_pool>>

runnerVars == <<sessions, handles, prewarm_headless, prewarm_vnc, servers, chains,
                creating, topups, kicks, prewarm_task, deleting, reaper, closer, now>>

controlVars == <<workers, rr_index, picks>>

\* the state of the services around the runner and the worker selection
edgeVars == <<listing, bridge, gateway, router, rewriter, clients, chain,
              prewarmer, watchdog>>

besidesListing == <<bridge, gateway, router, rewriter, clients, chain, prewarmer,
                    watchdog>>

besidesBridge == <<listing, gateway, router, rewriter, clients, chain, prewarmer,
                   watchdog>>

besidesGateway == <<listing, bridge, router, rewriter, clients, chain, prewarmer,
                    watchdog>>

besidesRouter == <<listing, bridge, gateway, rewriter, clients, chain, prewarmer,
                   watchdog>>

besidesRewriter == <<listing, bridge, gateway, router, clients, chain, prewarmer,
                     watchdog>>

besidesClients == <<listing, bridge, gateway, router, rewriter, chain, prewarmer,
                    watchdog>>

besidesChain == <<listing, bridge, gateway, router, rewriter, clients, prewarmer,
                  watchdog>>

besidesPrewarmer == <<listing, bridge, gateway, router, rewriter, clients, chain,
                      watchdog>>

besidesWatchdog == <<listing, bridge, gateway, router, rewriter, clients, chain,
                     prewarmer>>

vars == <<cfg, vnc_pool, resp, sessions, handles, prewarm_headless, prewarm_vnc,
          servers, chains, creating, topups, kicks, prewarm_task, deleting, reaper,
          closer, now, workers, rr_index, picks,
         listing, bridge, gateway, router, rewriter, clients, chain, prewarmer, watchdog>>

\* AppState.__init__: the round-robin counter starts at 0; a runner on its
\* own has no worker list
ControlInit ==
  /\ rr_index = 0
  /\ picks = << >>

\* no GET /sessions request is in progress
NoListing == listing = [pc |-> "idle"]

\* no bridge_websocket call has been made
NoBridge == bridge = [pc |-> "idle"]

\* no VNC gateway runs
NoGateway == gateway = [pc |-> "idle"]

\* the vnc-gateway has served no request
NoRouter == router = [pc |-> "idle"]

\* no VNC payload is being rewritten
NoRewriter == rewriter = [pc |-> "idle"]

\* the control plane has created no HTTP client
NoClients == clients = [pc |-> "idle"]

\* no VNC chain is being started
NoChain == chain = [pc |-> "idle"]

\* no PrewarmPool has been started
NoPrewarmer == prewarmer = [pc |-> "idle"]

\* no connection is watched
NoWatchdog == watchdog = [pc |-> "idle"]

EdgeInit == NoListing /\ NoBridge /\ NoGateway /\ NoRouter /\ NoRewriter /\ NoClients /\ NoChain /\ NoPrewarmer /\ NoWatchdog

\* every service but the named one is idle
IdleBesidesListing == NoBridge /\ NoGateway /\ NoRouter /\ NoRewriter /\ NoClients /\ NoChain /\ NoPrewarmer /\ NoWatchdog

IdleBesidesBridge == NoListing /\ NoGateway /\ NoRouter /\ NoRewriter /\ NoClients /\ NoChain /\ NoPrewarmer /\ NoWatchdog

IdleBesidesGateway == NoListing /\ NoBridge /\ NoRouter /\ NoRewriter /\ NoClients /\ NoChain /\ NoPrewarmer /\ NoWatchdog

IdleBesidesRouter == NoListing /\ NoBridge /\ NoGateway /\ NoRewriter /\ NoClients /\ NoChain /\ NoPrewarmer /\ NoWatchdog

IdleBesidesRewriter == NoListing /\ NoBridge /\ NoGateway /\ NoRouter /\ NoClients /\ NoChain /\ NoPrewarmer /\ NoWatchdog

IdleBesidesClients == NoListing /\ NoBridge /\ NoGateway /\ NoRouter /\ NoRewriter /\ NoChain /\ NoPrewarmer /\ NoWatchdog

IdleBesidesChain == NoListing /\ NoBridge /\ NoGateway /\ NoRouter /\ NoRewriter /\ NoClients /\ NoPrewarmer /\ NoWatchdog

IdleBesidesPrewarmer == NoListing /\ NoBridge /\ NoGateway /\ NoRouter /\ NoRewriter /\ NoClients /\ NoChain /\ NoWatchdog

IdleBesidesWatchdog == NoListing /\ NoBridge /\ NoGateway /\ NoRouter /\ NoRewriter /\ NoClients /\ NoChain /\ NoPrewarmer

NoWorkers == workers = << >>

NoResp == [op |-> "none"]

IdleReaper == [pc |-> "sleep", stale |-> << >>]

IdleCloser == [pc |-> "idle", items |-> << >>, ids |-> << >>, phase |-> "none", exc |-> FALSE]

\* SessionManager.__init__ followed by start(); the prewarm task exists only
\* when a prewarm target is positive
RunnerInit ==
  /\ NoWorkers
  /\ ControlInit
  /\ EdgeInit
  /\ sessions = {}
  /\ handles = << >>
  /\ prewarm_headless = << >>
  /\ prewarm_vnc = << >>
  /\ servers = {}
  /\ chains = {}
  /\ creating = {}
  /\ topups = {}
  /\ kicks = 0
  /\ prewarm_task = IF cfg.prewarm_headless > 0 \/ (cfg.vnc_available /\ cfg.prewarm_vnc > 0)
                    THEN "sleep" ELSE "none"
  /\ deleting = {}
  /\ reaper = IdleReaper
  /\ closer = IdleCloser
  /\ now = 0

----------------------------------------------------------------------------
(* The pool on its own, under every sequence of acquire() and release() *)

PoolCfgs ==
  [nd : 1..MaxSpan, nv : 1..MaxSpan, nw : 1..MaxSpan, vnc_available : {TRUE},
   prewarm_headless : {0}, prewarm_vnc : {0},
   max_sessions : {0}, max_time : {0}, max_ttl : {0}, start_urls : {FALSE}, proxies : {FALSE}]

InitPool ==
  /\ cfg \in PoolCfgs
  /\ vnc_pool = NewPool(cfg)
  /\ resp = NoResp
  /\ RunnerInit

\* the slot the call just before returned to the deques (None when that call
\* was not a release of an active slot)
JustReleased ==
  IF resp.op = "release" /\ resp.slot \in resp.before.active THEN resp.slot ELSE None

\* acquire() with a free element in every deque
PoolAcquireOk ==
  /\ CanAcquire(vnc_pool)
  /\ vnc_pool' = PoolAcquire(vnc_pool)
  /\ resp' = [op |-> "acquire", ok |-> TRUE, slot |-> AcquiredSlot(vnc_pool), before |-> vnc_pool,
              prev |-> JustReleased]
  /\ UNCHANGED <<cfg, controlVars, edgeVars, runnerVars>>

\* acquire() with an empty deque: RuntimeError("No available VNC slots")
PoolAcquireFail ==
  /\ ~CanAcquire(vnc_pool)
  /\ resp' = [op |-> "acquire", ok |-> FALSE, slot |-> None, before |-> vnc_pool,
              prev |-> JustReleased]
  /\ UNCHANGED <<cfg, controlVars, edgeVars, vnc_pool, runnerVars>>

\* release(slot) of any slot value, None included
PoolReleaseAny ==
  \E slot \in AllSlots(cfg) \cup {None} :
    /\ vnc_pool' = PoolRelease(vnc_pool, slot)
    /\ resp' = [op |-> "release", ok |-> TRUE, slot |-> slot, before |-> vnc_pool,
              prev |-> JustReleased]
    /\ UNCHANGED <<cfg, controlVars, edgeVars, runnerVars>>

NextPool == PoolAcquireOk \/ PoolAcquireFail \/ PoolReleaseAny

SpecPool == InitPool /\ [][NextPool]_vars

----------------------------------------------------------------------------
(* C2: after any sequence of acquire() and release(slot) calls, the number of
   active slots plus the length of the shortest free queue equals the pool
   capacity, the minimum of the three configured range sizes. *)
C2_PoolConservation ==
  Cardinality(vnc_pool.active)
    + Min2(Len(vnc_pool.display_pool), Min2(Len(vnc_pool.vnc_ports), Len(vnc_pool.ws_ports)))
    = Capacity(cfg)

\* a slot that is not active was released while other slots were held, with
\* ranges of different sizes
C2_Witness ==
  /\ resp.op = "release"
  /\ resp.slot # None
  /\ resp.slot \notin resp.before.active
  /\ resp.before.active # {}
  /\ cfg.nd # cfg.nv
  /\ Capacity(cfg) >= 2

(* C3: no display, RFB port or WS port appears twice in its free queue, none is
   both free and part of an active slot, no two active slots share a display,
   an RFB port or a WS port, and releasing a slot that is not active (unknown
   or already released) changes nothing. *)
C3_PoolExclusive ==
  /\ NoDup(vnc_pool.display_pool)
  /\ NoDup(vnc_pool.vnc_ports)
  /\ NoDup(vnc_pool.ws_ports)
  /\ \A s \in vnc_pool.active :
       /\ s.display \notin SeqElems(vnc_pool.display_pool)
       /\ s.vnc_port \notin SeqElems(vnc_pool.vnc_ports)
       /\ s.ws_port \notin SeqElems(vnc_pool.ws_ports)
  /\ \A s, t \in vnc_pool.active :
       s # t => /\ s.display # t.display
                /\ s.vnc_port # t.vnc_port
                /\ s.ws_port # t.ws_port
  /\ (resp.op = "release" /\ resp.slot \notin resp.before.active) => vnc_pool = resp.before

\* a slot was released a second time, right after its release, while another
\* slot was still held
C3_Witness ==
  /\ resp.op = "release"
  /\ resp.slot # None
  /\ resp.slot \notin resp.before.active
  /\ Len(resp.before.display_pool) >= 1
  /\ Len(resp.before.vnc_ports) >= 1
  /\ Len(resp.before.ws_ports) >= 1
  /\ resp.slot.display = resp.before.display_pool[Len(resp.before.display_pool)]
  /\ resp.slot.vnc_port = resp.before.vnc_ports[Len(resp.before.vnc_ports)]
  /\ resp.slot.ws_port = resp.before.ws_ports[Len(resp.before.ws_ports)]
  /\ vnc_pool.active # {}

----------------------------------------------------------------------------
(* SessionManager: data *)

Last(s) == s[Len(s)]

Front(s) == SubSeq(s, 1, Len(s) - 1)

\* the ids of a set in ascending order: dict order of _sessions is insertion
\* order, and ids are handed out in insertion order
SortedSeq(S) ==
  CHOOSE s \in [1..Cardinality(S) -> S] : \A i, j \in 1..Cardinality(S) : i < j => s[i] < s[j]

\* settings.prewarm_headless
PrewarmHeadlessTarget == cfg.prewarm_headless

\* settings.prewarm_vnc if the VNC tooling is installed, else 0
PrewarmVncTarget == IF cfg.vnc_available THEN cfg.prewarm_vnc ELSE 0

\* payload.get("idle_ttl_seconds") or defaults.idle_ttl_seconds (0 stands for
\* an absent value)
IdleTtl(requested) == IF requested = 0 THEN DefaultIdleTtl ELSE requested

\* an expiry test that would exclude now = ttl_deadline
ExpiredStrict(h, t) == t > h.last_seen_at + h.idle_ttl_seconds

\* ttl_deadline = last_seen_at + idle_ttl_seconds; expired when now >= ttl_deadline
Expired(h, t) == t >= h.last_seen_at + h.idle_ttl_seconds

\* whether a request carries a start_url (there is no default start_url)
StartUrls == IF cfg.start_urls THEN BOOLEAN ELSE {FALSE}

\* whether a request carries a per-session proxy override
Proxies == IF cfg.proxies THEN BOOLEAN ELSE {FALSE}

\* a handle left at the dataclass default status INIT
NewHandleInit(headless, vnc, ttl, preload, server, vnc_session) ==
  [status |-> "INIT", headless |-> headless, vnc |-> vnc, idle_ttl_seconds |-> ttl,
   created_at |-> now, last_seen_at |-> now, server |-> server,
   vnc_session |-> vnc_session, controller |-> FALSE,
   boot |-> IF preload THEN "pending" ELSE "none",
   td |-> "none", exc |-> "none", removed |-> 0, shutdowns |-> 0]

\* SessionHandle(...) as create() builds it: status=SessionStatus.READY
NewHandle(headless, vnc, ttl, preload, server, vnc_session) ==
  [status |-> "READY", headless |-> headless, vnc |-> vnc, idle_ttl_seconds |-> ttl,
   created_at |-> now, last_seen_at |-> now, server |-> server,
   vnc_session |-> vnc_session, controller |-> FALSE,
   boot |-> IF preload THEN "pending" ELSE "none",
   td |-> "none", exc |-> "none", removed |-> 0, shutdowns |-> 0]

\* a handle taken out of the table (history: how often it was taken out)
Removed(h) == [h EXCEPT !.removed = @ + 1]

----------------------------------------------------------------------------
(* _shutdown_handle, one awaited phase per step.
   td is the phase the teardown is suspended in:
     "controller"  _teardown_controller, awaiting the page/context/browser close
     "server"      handle.server.close(), awaiting the process exit and the drains
     "vnc"         _stop_vnc_session, awaiting _terminate_vnc_processes
   and then how it ended: "done", "raised" (an exception left it), "cancelled".
   server.close() and _terminate_vnc_processes await the stdio drain tasks and
   suppress only CancelledError, so an exception a drain task ended with
   (_drain_stream decodes every line as UTF-8 and readline() rejects over-long
   lines) is raised there, after the processes were terminated. *)

TdEnd(e) == IF e = "none" THEN "done" ELSE IF e = "error" THEN "raised" ELSE "cancelled"

\* entry of _shutdown_handle: _teardown_controller suspends only when a
\* controller is attached; otherwise server.close() is the first await
TdBegin(h) ==
  [h EXCEPT !.td = IF h.controller THEN "controller" ELSE "server",
            !.shutdowns = @ + 1]

\* a teardown that would set DEAD without clearing handle.vnc_session
TdStepKeepVnc(h, raised) ==
  IF h.td = "controller" THEN [h EXCEPT !.controller = FALSE, !.td = "server"]
  ELSE IF h.td = "server"
  THEN LET e == IF raised THEN "error" ELSE h.exc IN
       IF h.vnc_session = None
       THEN [h EXCEPT !.exc = e, !.status = "DEAD", !.td = TdEnd(e)]
       ELSE [h EXCEPT !.exc = e, !.td = "vnc"]
  ELSE IF raised THEN [h EXCEPT !.exc = "error", !.td = "raised"]
       ELSE [h EXCEPT !.status = "DEAD", !.td = TdEnd(h.exc)]

\* the handle after the phase it is suspended in has finished; raised: the
\* awaited call raised an exception
TdStep(h, raised) ==
  IF h.td = "controller" THEN [h EXCEPT !.controller = FALSE, !.td = "server"]
  ELSE IF h.td = "server"
  THEN LET e == IF raised THEN "error" ELSE h.exc IN
       IF h.vnc_session = None
       THEN [h EXCEPT !.exc = e, !.status = "DEAD", !.td = TdEnd(e)]
       ELSE [h EXCEPT !.exc = e, !.td = "vnc"]
  ELSE IF raised THEN [h EXCEPT !.exc = "error", !.td = "raised"]
       ELSE [h EXCEPT !.vnc_session = None, !.status = "DEAD", !.td = TdEnd(h.exc)]

\* the child processes after the phase: server.close() ends the browser server
TdServers(h) == IF h.td = "server" THEN servers \ {h.server} ELSE servers

\* _terminate_vnc_processes kills the helper chain
TdChains(h) == IF h.td = "vnc" THEN chains \ {h.vnc_session} ELSE chains

\* _stop_vnc_session releases the slot in its finally
TdPool(h) == IF h.td = "vnc" THEN PoolRelease(vnc_pool, h.vnc_session) ELSE vnc_pool

TdRunning(h) == h.td \in {"controller", "server", "vnc"}

----------------------------------------------------------------------------
(* create() *)

\* the browser servers some object of the manager still refers to
Referenced ==
  servers \cup {handles[i].server : i \in DOMAIN handles}
          \cup {c.server : c \in creating}
          \cup {t.server : t \in topups}
          \cup {prewarm_headless[i].server : i \in DOMAIN prewarm_headless}
          \cup {prewarm_vnc[i].server : i \in DOMAIN prewarm_vnc}
          \cup {closer.items[i].server : i \in DOMAIN closer.items}

\* the name of the next child process: the least one nothing refers to
Spawned ==
  CHOOSE n \in 1..(Cardinality(Referenced) + 1) :
    /\ n \notin Referenced
    /\ \A m \in 1..(n - 1) : m \in Referenced

\* bound on the create() calls of one run
CanCreate == Len(handles) + Cardinality(creating) < cfg.max_sessions

\* bound on the create() calls in flight: the calls that await a launch
CanLaunch == Cardinality(creating) < MaxCreating

\* whether the launch config of a browser server carries the proxy of the
\* request: _launch_browser_server takes headless, vnc and display only, and
\* config["proxy"] is the proxy of camoufox's launch_options, if any
OverrideApplied(proxy) == FALSE

\* the end of create(): the handle enters the table and a top-up is kicked
Insert(h, prewarmed, proxy) ==
  /\ handles' = Append(handles, h)
  /\ sessions' = sessions \cup {Len(handles) + 1}
  /\ kicks' = Min2(kicks + 1, MaxKicks)
  /\ resp' = [op |-> "create", ok |-> TRUE, id |-> Len(handles) + 1, prewarmed |-> prewarmed,
              proxy |-> proxy, override |-> ~prewarmed /\ OverrideApplied(proxy)]

CreateFailed(err, slot, server) ==
  [op |-> "create", ok |-> FALSE, err |-> err, slot |-> slot, server |-> server]

\* an _acquire_prewarmed that would serve every request without VNC from the
\* headless stack
AcquireHeadlessForAll(vnc, headless) ==
  IF vnc /\ prewarm_vnc # << >> THEN "vnc"
  ELSE IF ~vnc /\ prewarm_headless # << >> THEN "headless"
  ELSE "none"

\* _acquire_prewarmed(vnc, headless): the stack it pops under the lock
AcquirePrewarmed(vnc, headless) ==
  IF vnc /\ prewarm_vnc # << >> THEN "vnc"
  ELSE IF ~vnc /\ headless /\ prewarm_headless # << >> THEN "headless"
  ELSE "none"

\* create() up to its first suspension
CreateBegin ==
  \E vnc \in BOOLEAN, wantHeadless \in BOOLEAN, ttl \in 0..cfg.max_ttl, preload \in StartUrls,
     proxy \in Proxies :
    LET headless == IF vnc THEN FALSE ELSE wantHeadless
        call == [pc |-> "launch", headless |-> headless, vnc |-> vnc,
                 ttl |-> IdleTtl(ttl), preload |-> preload, proxy |-> proxy,
                 vnc_session |-> None, server |-> 0]
    IN
    /\ CanCreate
    /\ CanLaunch \/ AcquirePrewarmed(vnc, headless) # "none"
    /\ UNCHANGED <<cfg, controlVars, edgeVars, topups, prewarm_task, deleting, reaper, closer, now>>
    /\ IF vnc /\ ~cfg.vnc_available
       THEN \* VNCUnavailableError
            /\ resp' = CreateFailed("VNCUnavailable", None, 0)
            /\ UNCHANGED <<vnc_pool, sessions, handles, prewarm_headless, prewarm_vnc,
                           servers, chains, creating, kicks>>
       ELSE IF AcquirePrewarmed(vnc, headless) = "vnc"
       THEN \* _acquire_prewarmed pops the VNC stack
            /\ prewarm_vnc' = Front(prewarm_vnc)
            /\ Insert(NewHandle(headless, vnc, IdleTtl(ttl), preload,
                                Last(prewarm_vnc).server, Last(prewarm_vnc).vnc_session),
                      TRUE, proxy)
            /\ UNCHANGED <<vnc_pool, prewarm_headless, servers, chains, creating>>
       ELSE IF AcquirePrewarmed(vnc, headless) = "headless"
       THEN \* _acquire_prewarmed pops the headless stack
            /\ prewarm_headless' = Front(prewarm_headless)
            /\ Insert(NewHandle(headless, vnc, IdleTtl(ttl), preload,
                                Last(prewarm_headless).server,
                                Last(prewarm_headless).vnc_session), TRUE, proxy)
            /\ UNCHANGED <<vnc_pool, prewarm_vnc, servers, chains, creating>>
       ELSE IF vnc /\ ~CanAcquire(vnc_pool)
       THEN \* _start_vnc_session: acquire() raises, nothing was started
            /\ resp' = CreateFailed("NoCapacity", None, 0)
            /\ UNCHANGED <<vnc_pool, sessions, handles, prewarm_headless, prewarm_vnc,
                           servers, chains, creating, kicks>>
       ELSE IF vnc
       THEN \* _start_vnc_session: slot acquired, the chain is being spawned
            /\ vnc_pool' = PoolAcquire(vnc_pool)
            /\ chains' = chains \cup {AcquiredSlot(vnc_pool)}
            /\ creating' = creating \cup
                 {[call EXCEPT !.pc = "vnc_start", !.vnc_session = AcquiredSlot(vnc_pool)]}
            /\ resp' = NoResp
            /\ UNCHANGED <<sessions, handles, prewarm_headless, prewarm_vnc, servers, kicks>>
       ELSE \* _launch_browser_server: the child is spawned, its first line awaited
            /\ servers' = servers \cup {Spawned}
            /\ creating' = creating \cup {[call EXCEPT !.server = Spawned]}
            /\ resp' = NoResp
            /\ UNCHANGED <<vnc_pool, sessions, handles, prewarm_headless, prewarm_vnc,
                           chains, kicks>>

\* _start_vnc_session returns, or fails and starts to clean up after itself
CreateVncStarted ==
  \E c \in creating, ok \in BOOLEAN :
    /\ c.pc = "vnc_start"
    /\ resp' = NoResp
    /\ UNCHANGED <<cfg, controlVars, edgeVars, vnc_pool, sessions, handles, prewarm_headless, prewarm_vnc, chains,
                   topups, kicks, prewarm_task, deleting, reaper, closer, now>>
    /\ IF ok
       THEN /\ servers' = servers \cup {Spawned}
            /\ creating' = (creating \ {c}) \cup {[c EXCEPT !.pc = "launch", !.server = Spawned]}
       ELSE /\ creating' = (creating \ {c}) \cup {[c EXCEPT !.pc = "vnc_abort"]}
            /\ UNCHANGED servers

\* the except branch of _start_vnc_session: _terminate_vnc_processes, then
\* release(slot), then raise; the release is skipped when the termination raises
CreateVncAborted ==
  \E c \in creating, raised \in BOOLEAN :
    /\ c.pc = "vnc_abort"
    /\ chains' = chains \ {c.vnc_session}
    /\ vnc_pool' = IF raised THEN vnc_pool ELSE PoolRelease(vnc_pool, c.vnc_session)
    /\ creating' = creating \ {c}
    /\ resp' = CreateFailed("VncStart", c.vnc_session, 0)
    /\ UNCHANGED <<cfg, controlVars, edgeVars, sessions, handles, prewarm_headless, prewarm_vnc, servers, topups,
                   kicks, prewarm_task, deleting, reaper, closer, now>>

\* _launch_browser_server returns and create() runs to its end, or it fails:
\* the child is killed and create() stops the VncSession it started
CreateLaunched ==
  \E c \in creating, ok \in BOOLEAN :
    /\ c.pc = "launch"
    /\ UNCHANGED <<cfg, controlVars, edgeVars, vnc_pool, prewarm_headless, prewarm_vnc, chains, topups,
                   prewarm_task, deleting, reaper, closer, now>>
    /\ IF ok
       THEN /\ Insert(NewHandle(c.headless, c.vnc, c.ttl, c.preload, c.server, c.vnc_session),
                      FALSE, c.proxy)
            /\ creating' = creating \ {c}
            /\ UNCHANGED servers
       ELSE /\ servers' = servers \ {c.server}
            /\ UNCHANGED <<sessions, handles, kicks>>
            /\ IF c.vnc_session = None
               THEN /\ creating' = creating \ {c}
                    /\ resp' = CreateFailed("Launch", None, c.server)
               ELSE /\ creating' = (creating \ {c}) \cup {[c EXCEPT !.pc = "stop_vnc"]}
                    /\ resp' = NoResp

\* a _stop_vnc_session that would end the processes and keep the slot
StopVncKeepSlot(p, slot) == p

\* _stop_vnc_session: the slot goes back in a finally, whatever the termination did
StopVncSession(p, slot) == PoolRelease(p, slot)

\* the except branch of create(): _stop_vnc_session(vnc_session), then raise
CreateStopVnc ==
  \E c \in creating :
    /\ c.pc = "stop_vnc"
    /\ chains' = chains \ {c.vnc_session}
    /\ vnc_pool' = StopVncSession(vnc_pool, c.vnc_session)
    /\ creating' = creating \ {c}
    /\ resp' = CreateFailed("Launch", c.vnc_session, c.server)
    /\ UNCHANGED <<cfg, controlVars, edgeVars, sessions, handles, prewarm_headless, prewarm_vnc, servers, topups,
                   kicks, prewarm_task, deleting, reaper, closer, now>>

\* _bootstrap_session ends: the controller is attached when the preload worked
BootstrapDone ==
  \E id \in DOMAIN handles, ok \in BOOLEAN :
    /\ handles[id].boot = "pending"
    /\ ok => handles[id].server \in servers
    /\ handles' = [handles EXCEPT ![id].boot = "done", ![id].controller = ok]
    /\ resp' = NoResp
    /\ UNCHANGED <<cfg, controlVars, edgeVars, vnc_pool, sessions, prewarm_headless, prewarm_vnc, servers, chains,
                   creating, topups, kicks, prewarm_task, deleting, reaper, closer, now>>

----------------------------------------------------------------------------
(* get(), touch(), list_summaries(), delete() *)

\* the session ids handed out so far
Ids == DOMAIN handles

NotFound == [found |-> FALSE, status |-> "none", last_seen_at |-> 0]

Found(h) == [found |-> TRUE, status |-> h.status, last_seen_at |-> h.last_seen_at]

\* get(session_id): self._sessions.get(session_id) under the lock
GetResult(id) == IF id \in sessions THEN Found(handles[id]) ELSE NotFound

\* list_summaries(): the summary of every handle of the table, under the lock
ListResult == {[id |-> id, status |-> handles[id].status] : id \in sessions}

\* a touch() that would renew the whole lifetime of the session
TouchedRenewed(h) == [h EXCEPT !.last_seen_at = now, !.created_at = now]

\* handle.last_seen_at = now
Touched(h) == [h EXCEPT !.last_seen_at = now]

\* a lookup that would also find the handles already taken out of the table
TouchFindsRemoved(id) == id \in DOMAIN handles

\* touch(): handle = self._sessions.get(session_id); `if not handle: return None`
TouchFinds(id) == id \in sessions

\* what touch(session_id) returns
TouchResult(id) == IF TouchFinds(id) THEN Found(Touched(handles[id])) ELSE NotFound

\* touch(session_id), under the lock: last_seen_at of a session it finds is
\* set to now; for any other id it returns None and changes nothing
Touch ==
  \E id \in Ids :
    /\ IF TouchFinds(id)
       THEN /\ handles' = [handles EXCEPT ![id] = Touched(handles[id])]
            /\ resp' = [op |-> "touch", found |-> TRUE]
       ELSE /\ resp' = [op |-> "touch", found |-> FALSE]
            /\ UNCHANGED handles
    /\ UNCHANGED <<cfg, controlVars, edgeVars, vnc_pool, sessions, prewarm_headless, prewarm_vnc, servers, chains,
                   creating, topups, kicks, prewarm_task, deleting, reaper, closer, now>>

\* a delete() that would read the session without popping it
DeletedKeepInTable(S, id) == S

\* self._sessions.pop(session_id, None)
Popped(S, id) == S \ {id}

\* delete() up to its first suspension: pop under the lock, mark TERMINATING,
\* enter _shutdown_handle
Delete ==
  \E id \in Ids :
    /\ IF id \in sessions
       THEN /\ sessions' = Popped(sessions, id)
            /\ handles' = [handles EXCEPT
                 ![id] = TdBegin(Removed([handles[id] EXCEPT !.status = "TERMINATING"]))]
            /\ deleting' = deleting \cup {id}
            /\ resp' = NoResp
       ELSE /\ resp' = [op |-> "delete", id |-> 0, found |-> FALSE, ok |-> TRUE,
                        status |-> "none"]
            /\ UNCHANGED <<sessions, handles, deleting>>
    /\ UNCHANGED <<cfg, controlVars, edgeVars, vnc_pool, prewarm_headless, prewarm_vnc, servers, chains, creating,
                   topups, kicks, prewarm_task, reaper, closer, now>>

\* one awaited phase of the teardown inside delete(); at its end delete()
\* returns the handle or raises
DeleteStep ==
  \E id \in deleting, raised \in BOOLEAN :
    LET h == handles[id]
        h2 == TdStep(h, raised)
    IN
    /\ (raised => h.td # "controller")
    /\ handles' = [handles EXCEPT ![id] = h2]
    /\ servers' = TdServers(h)
    /\ chains' = TdChains(h)
    /\ vnc_pool' = TdPool(h)
    /\ IF TdRunning(h2)
       THEN /\ resp' = NoResp
            /\ UNCHANGED deleting
       ELSE /\ deleting' = deleting \ {id}
            /\ resp' = [op |-> "delete", id |-> id, found |-> TRUE, ok |-> h2.td = "done",
                        status |-> h2.status]
    /\ UNCHANGED <<cfg, controlVars, edgeVars, sessions, prewarm_headless, prewarm_vnc, creating, topups, kicks,
                   prewarm_task, reaper, closer, now>>

----------------------------------------------------------------------------
(* The clock and the idle reaper: _cleanup_loop, _cleanup_expired *)

Tick ==
  /\ now < cfg.max_time
  /\ now' = now + 1
  /\ resp' = NoResp
  /\ UNCHANGED <<cfg, controlVars, edgeVars, vnc_pool, sessions, handles, prewarm_headless, prewarm_vnc, servers,
                 chains, creating, topups, kicks, prewarm_task, deleting, reaper, closer>>

\* the sessions _cleanup_expired collects under the lock
Stale == {id \in sessions : Expired(handles[id], now)}

\* _cleanup_loop wakes up and runs _cleanup_expired up to its first suspension:
\* the stale sessions are marked TERMINATING and popped, the teardown of the
\* first one is entered; with no stale session the task goes back to sleep
ReaperTick ==
  /\ reaper.pc = "sleep"
  /\ LET stale == SortedSeq(Stale) IN
     /\ sessions' = sessions \ Stale
     /\ handles' = [id \in DOMAIN handles |->
                      IF id \notin Stale THEN handles[id]
                      ELSE IF id = stale[1]
                      THEN TdBegin(Removed([handles[id] EXCEPT !.status = "TERMINATING"]))
                      ELSE Removed([handles[id] EXCEPT !.status = "TERMINATING"])]
     /\ reaper' = IF Stale = {} THEN reaper ELSE [pc |-> "teardown", stale |-> stale]
  /\ resp' = [op |-> "reap"]
  /\ UNCHANGED <<cfg, controlVars, edgeVars, vnc_pool, prewarm_headless, prewarm_vnc, servers, chains, creating,
                 topups, kicks, prewarm_task, deleting, closer, now>>

\* the reaper task after the teardown of its first stale session left phase
\* h2.td: nothing catches an exception of _shutdown_handle in _cleanup_expired
\* or in _cleanup_loop, so it ends the task
ReaperAfter(r, h2) ==
  IF TdRunning(h2) THEN r
  ELSE IF h2.td = "raised" THEN [pc |-> "crashed", stale |-> Tail(r.stale)]
  ELSE IF h2.td = "cancelled" THEN [pc |-> "cancelled", stale |-> Tail(r.stale)]
  ELSE IF Tail(r.stale) = << >> THEN [pc |-> "sleep", stale |-> << >>]
  ELSE [pc |-> "teardown", stale |-> Tail(r.stale)]

\* one awaited phase of the teardown the reaper is in
ReaperStep ==
  \E raised \in BOOLEAN :
    /\ reaper.pc = "teardown"
    /\ LET id == Head(reaper.stale)
           h == handles[id]
           h2 == TdStep(h, raised)
           r2 == ReaperAfter(reaper, h2)
       IN
       /\ (raised => h.td # "controller")
       /\ reaper' = r2
       /\ handles' = [i \in DOMAIN handles |->
                        IF i = id THEN h2
                        ELSE IF r2.pc = "teardown" /\ r2.stale # reaper.stale /\ i = Head(r2.stale)
                        THEN TdBegin(handles[i])
                        ELSE handles[i]]
       /\ servers' = TdServers(h)
       /\ chains' = TdChains(h)
       /\ vnc_pool' = TdPool(h)
    /\ resp' = NoResp
    /\ UNCHANGED <<cfg, controlVars, edgeVars, sessions, prewarm_headless, prewarm_vnc, creating, topups, kicks,
                   prewarm_task, deleting, closer, now>>

----------------------------------------------------------------------------
(* Prewarm: _prewarm_loop, _top_up_once *)

TopUpRec(kind, pc, nh, nv, slot, server) ==
  [kind |-> kind, pc |-> pc, need_headless |-> nh, need_vnc |-> nv,
   vnc_session |-> slot, server |-> server]

LoopAfter(kind, state) == IF kind = "loop" THEN state ELSE prewarm_task

\* _top_up_once from the point where nh headless and nv VNC entries are still
\* to be launched, up to the next suspension; old is the run's previous record,
\* srv, pool and ch the processes, pool and chains as the step left them so far
TopUpFrom(kind, nh, nv, old, srv, pool, ch) ==
  IF nh > 0
  THEN /\ servers' = srv \cup {Spawned}
       /\ topups' = (topups \ old) \cup {TopUpRec(kind, "h_launch", nh, nv, None, Spawned)}
       /\ vnc_pool' = pool
       /\ chains' = ch
       /\ prewarm_task' = LoopAfter(kind, "running")
  ELSE IF nv > 0 /\ CanAcquire(pool)
  THEN /\ vnc_pool' = PoolAcquire(pool)
       /\ chains' = ch \cup {AcquiredSlot(pool)}
       /\ topups' = (topups \ old) \cup {TopUpRec(kind, "v_vnc", 0, nv, AcquiredSlot(pool), 0)}
       /\ servers' = srv
       /\ prewarm_task' = LoopAfter(kind, "running")
  ELSE \* nothing left to launch, or acquire() raised and the round ends
       /\ topups' = topups \ old
       /\ servers' = srv
       /\ vnc_pool' = pool
       /\ chains' = ch
       /\ prewarm_task' = LoopAfter(kind, "sleep")

\* need_headless = max(0, target - len(stack)), read under the lock
NeedHeadless == IF PrewarmHeadlessTarget > Len(prewarm_headless)
                THEN PrewarmHeadlessTarget - Len(prewarm_headless) ELSE 0

NeedVnc == IF PrewarmVncTarget > Len(prewarm_vnc)
           THEN PrewarmVncTarget - Len(prewarm_vnc) ELSE 0

\* the periodic round of _prewarm_loop
TopUpLoopBegin ==
  /\ prewarm_task = "sleep"
  /\ NeedHeadless + NeedVnc > 0
  /\ TopUpFrom("loop", NeedHeadless, NeedVnc, {}, servers, vnc_pool, chains)
  /\ resp' = NoResp
  /\ UNCHANGED <<cfg, controlVars, edgeVars, sessions, handles, prewarm_headless, prewarm_vnc, creating, kicks,
                 deleting, reaper, closer, now>>

\* a round kicked by create()
TopUpKickBegin ==
  /\ kicks > 0
  /\ kicks' = kicks - 1
  /\ TopUpFrom("kick", NeedHeadless, NeedVnc, {}, servers, vnc_pool, chains)
  /\ resp' = NoResp
  /\ UNCHANGED <<cfg, controlVars, edgeVars, sessions, handles, prewarm_headless, prewarm_vnc, creating,
                 deleting, reaper, closer, now>>

\* the headless launch of a round ends: the entry is pushed, or the loop breaks
TopUpHeadlessLaunched ==
  \E t \in topups, ok \in BOOLEAN :
    /\ t.pc = "h_launch"
    /\ IF ok
       THEN /\ prewarm_headless' = Append(prewarm_headless,
                 [server |-> t.server, vnc_session |-> None, headless |-> TRUE])
            /\ TopUpFrom(t.kind, t.need_headless - 1, t.need_vnc, {t}, servers, vnc_pool, chains)
       ELSE /\ UNCHANGED prewarm_headless
            /\ TopUpFrom(t.kind, 0, t.need_vnc, {t},
                         servers \ {t.server}, vnc_pool, chains)
    /\ resp' = NoResp
    /\ UNCHANGED <<cfg, controlVars, edgeVars, sessions, handles, prewarm_vnc, creating, kicks, deleting, reaper,
                   closer, now>>

\* _start_vnc_session of a round returns, or fails and cleans up after itself
TopUpVncStarted ==
  \E t \in topups, ok \in BOOLEAN :
    /\ t.pc = "v_vnc"
    /\ IF ok
       THEN /\ servers' = servers \cup {Spawned}
            /\ topups' = (topups \ {t}) \cup {[t EXCEPT !.pc = "v_launch", !.server = Spawned]}
       ELSE /\ topups' = (topups \ {t}) \cup {[t EXCEPT !.pc = "v_abort"]}
            /\ UNCHANGED servers
    /\ resp' = NoResp
    /\ UNCHANGED <<cfg, controlVars, edgeVars, vnc_pool, sessions, handles, prewarm_headless, prewarm_vnc, chains,
                   creating, kicks, prewarm_task, deleting, reaper, closer, now>>

\* the except branch of _start_vnc_session inside a round; the round then breaks
TopUpVncAborted ==
  \E t \in topups, raised \in BOOLEAN :
    /\ t.pc = "v_abort"
    /\ chains' = chains \ {t.vnc_session}
    /\ vnc_pool' = IF raised THEN vnc_pool ELSE PoolRelease(vnc_pool, t.vnc_session)
    /\ topups' = topups \ {t}
    /\ prewarm_task' = LoopAfter(t.kind, "sleep")
    /\ resp' = NoResp
    /\ UNCHANGED <<cfg, controlVars, edgeVars, sessions, handles, prewarm_headless, prewarm_vnc, servers, creating,
                   kicks, deleting, reaper, closer, now>>

\* the VNC launch of a round ends: the entry is pushed, or the VncSession is stopped
TopUpVncLaunched ==
  \E t \in topups, ok \in BOOLEAN :
    /\ t.pc = "v_launch"
    /\ IF ok
       THEN /\ prewarm_vnc' = Append(prewarm_vnc,
                 [server |-> t.server, vnc_session |-> t.vnc_session, headless |-> FALSE])
            /\ TopUpFrom(t.kind, 0, t.need_vnc - 1, {t}, servers, vnc_pool, chains)
       ELSE /\ servers' = servers \ {t.server}
            /\ topups' = (topups \ {t}) \cup {[t EXCEPT !.pc = "v_stop"]}
            /\ UNCHANGED <<prewarm_vnc, vnc_pool, chains, prewarm_task>>
    /\ resp' = NoResp
    /\ UNCHANGED <<cfg, controlVars, edgeVars, sessions, handles, prewarm_headless, creating, kicks, deleting,
                   reaper, closer, now>>

\* _stop_vnc_session after a failed VNC launch of a round; the round then breaks
TopUpVncStopped ==
  \E t \in topups :
    /\ t.pc = "v_stop"
    /\ chains' = chains \ {t.vnc_session}
    /\ vnc_pool' = StopVncSession(vnc_pool, t.vnc_session)
    /\ topups' = topups \ {t}
    /\ prewarm_task' = LoopAfter(t.kind, "sleep")
    /\ resp' = [op |-> "top_up", ok |-> FALSE, slot |-> t.vnc_session]
    /\ UNCHANGED <<cfg, controlVars, edgeVars, sessions, handles, prewarm_headless, prewarm_vnc, servers, creating,
                   kicks, deleting, reaper, closer, now>>

----------------------------------------------------------------------------
(* close(): cancel the cleanup task, the prewarm task and the bootstrap tasks,
   then _close_prewarmed, then _close_all *)

\* CancelledError delivered to a teardown suspended in phase h.td: it is no
\* Exception, so contextlib.suppress(Exception) lets it through; the finally of
\* _shutdown_handle and of _stop_vnc_session still run
TdCancel(h) ==
  IF h.td = "controller" THEN [h EXCEPT !.exc = "cancel", !.td = "cancelled"]
  ELSE IF h.td = "server"
  THEN IF h.vnc_session = None
       THEN [h EXCEPT !.exc = "cancel", !.status = "DEAD", !.td = "cancelled"]
       ELSE [h EXCEPT !.exc = "cancel", !.td = "vnc"]
  ELSE [h EXCEPT !.exc = "cancel", !.td = "cancelled"]

RaisedCloser == [pc |-> "raised", items |-> << >>, ids |-> << >>, phase |-> "none", exc |-> FALSE]

WaitingCloser(pc) == [pc |-> pc, items |-> << >>, ids |-> << >>, phase |-> "none", exc |-> FALSE]

\* close() up to its first suspension: cancel the cleanup task and await it;
\* awaiting a task that ended with an exception raises that exception
CloseBegin ==
  /\ closer.pc = "idle"
  /\ resp' = NoResp
  /\ UNCHANGED <<cfg, controlVars, edgeVars, sessions, prewarm_headless, prewarm_vnc, creating, topups, kicks,
                 prewarm_task, deleting, now>>
  /\ IF reaper.pc = "crashed"
     THEN /\ closer' = RaisedCloser
          /\ UNCHANGED <<vnc_pool, handles, servers, chains, reaper>>
     ELSE IF reaper.pc = "sleep"
     THEN /\ closer' = WaitingCloser("cleanup")
          /\ reaper' = [pc |-> "cancelled", stale |-> << >>]
          /\ UNCHANGED <<vnc_pool, handles, servers, chains>>
     ELSE \E killed \in BOOLEAN :
            LET id == Head(reaper.stale)
                h == handles[id]
                h2 == TdCancel(h)
            IN
            /\ (~killed => h.td = "vnc")
            /\ closer' = WaitingCloser("cleanup")
            /\ handles' = [handles EXCEPT ![id] = h2]
            /\ reaper' = IF TdRunning(h2) THEN reaper
                         ELSE [pc |-> "cancelled", stale |-> Tail(reaper.stale)]
            /\ servers' = TdServers(h)
            /\ chains' = IF killed THEN TdChains(h) ELSE chains
            /\ vnc_pool' = TdPool(h)

\* the sessions _close_all takes out of the table, and the first teardown entered
SnapHandles ==
  [i \in DOMAIN handles |->
     IF i \notin sessions THEN handles[i]
     ELSE IF i = SortedSeq(sessions)[1] THEN TdBegin(Removed(handles[i]))
     ELSE Removed(handles[i])]

\* _close_all up to its first suspension
CloseAll ==
  /\ sessions' = {}
  /\ handles' = SnapHandles
  /\ closer' = [pc |-> IF sessions = {} THEN "done" ELSE "handles", items |-> << >>,
                ids |-> SortedSeq(sessions), phase |-> "none", exc |-> FALSE]

\* _close_prewarmed up to its first suspension; with nothing prewarmed,
\* _close_all follows at once
ClosePrewarmed ==
  /\ prewarm_headless' = << >>
  /\ prewarm_vnc' = << >>
  /\ IF prewarm_headless \o prewarm_vnc = << >>
     THEN CloseAll
     ELSE /\ closer' = [pc |-> "items", items |-> prewarm_headless \o prewarm_vnc,
                        ids |-> << >>, phase |-> "server", exc |-> FALSE]
          /\ UNCHANGED <<sessions, handles>>

Pending == {id \in DOMAIN handles : handles[id].boot = "pending"}

\* close() past the prewarm task: the bootstrap tasks are cancelled and
\* awaited, or _close_prewarmed follows at once when there is none
CloseCancelBootstraps ==
  IF Pending # {}
  THEN /\ handles' = [id \in DOMAIN handles |->
                        IF id \in Pending THEN [handles[id] EXCEPT !.boot = "cancelled"]
                        ELSE handles[id]]
       /\ closer' = WaitingCloser("bootstrap")
       /\ UNCHANGED <<sessions, prewarm_headless, prewarm_vnc>>
  ELSE ClosePrewarmed

\* the cleanup task has ended; close() cancels the prewarm task, if there is
\* one, and awaits it.  The cancelled round cleans up nothing: CancelledError
\* passes every `except Exception` of _top_up_once, _launch_browser_server and
\* _start_vnc_session; only the finally of _stop_vnc_session still releases.
CloseCleanupAwaited ==
  /\ closer.pc = "cleanup"
  /\ reaper.pc \in {"cancelled", "crashed"}
  /\ resp' = NoResp
  /\ UNCHANGED <<cfg, controlVars, edgeVars, servers, chains, creating, kicks, deleting, reaper, now>>
  /\ IF reaper.pc = "crashed"
     THEN /\ closer' = RaisedCloser
          /\ UNCHANGED <<vnc_pool, topups, prewarm_task, sessions, handles,
                         prewarm_headless, prewarm_vnc>>
     ELSE IF prewarm_task = "none"
     THEN /\ CloseCancelBootstraps
          /\ UNCHANGED <<vnc_pool, topups, prewarm_task>>
     ELSE /\ closer' = WaitingCloser("prewarm")
          /\ prewarm_task' = "cancelled"
          /\ topups' = {t \in topups : t.kind # "loop"}
          /\ vnc_pool' = IF \E t \in topups : t.kind = "loop" /\ t.pc = "v_stop"
                         THEN PoolRelease(vnc_pool,
                                (CHOOSE t \in topups : t.kind = "loop").vnc_session)
                         ELSE vnc_pool
          /\ UNCHANGED <<sessions, handles, prewarm_headless, prewarm_vnc>>

\* the prewarm task has ended
ClosePrewarmAwaited ==
  /\ closer.pc = "prewarm"
  /\ resp' = NoResp
  /\ UNCHANGED <<cfg, controlVars, edgeVars, vnc_pool, servers, chains, creating, topups, kicks, prewarm_task,
                 deleting, reaper, now>>
  /\ CloseCancelBootstraps

\* the bootstrap tasks have ended
CloseBootstrapAwaited ==
  /\ closer.pc = "bootstrap"
  /\ resp' = NoResp
  /\ ClosePrewarmed
  /\ UNCHANGED <<cfg, controlVars, edgeVars, vnc_pool, servers, chains, creating, topups, kicks, prewarm_task,
                 deleting, reaper, now>>

\* one awaited phase of _close_prewarmed: item.server.close(), then in the
\* finally _stop_vnc_session(item.vnc_session); an exception leaves close()
CloseItemStep ==
  \E raised \in BOOLEAN :
    LET item == Head(closer.items)
        last == closer.phase = "vnc" \/ item.vnc_session = None
        failed == raised \/ closer.exc
    IN
    /\ closer.pc = "items"
    /\ resp' = NoResp
    /\ UNCHANGED <<cfg, controlVars, edgeVars, prewarm_headless, prewarm_vnc, creating, topups, kicks,
                   prewarm_task, deleting, reaper, now>>
    /\ servers' = IF closer.phase = "server"
                  THEN servers \ {item.server} ELSE servers
    /\ chains' = IF closer.phase = "vnc" THEN chains \ {item.vnc_session} ELSE chains
    /\ vnc_pool' = IF closer.phase = "vnc"
                   THEN StopVncSession(vnc_pool, item.vnc_session) ELSE vnc_pool
    /\ IF ~last
       THEN /\ closer' = [closer EXCEPT !.phase = "vnc", !.exc = raised]
            /\ UNCHANGED <<sessions, handles>>
       ELSE IF failed
       THEN /\ closer' = [RaisedCloser EXCEPT !.items = Tail(closer.items)]
            /\ UNCHANGED <<sessions, handles>>
       ELSE IF Tail(closer.items) # << >>
       THEN /\ closer' = [closer EXCEPT !.items = Tail(closer.items), !.phase = "server",
                                        !.exc = FALSE]
            /\ UNCHANGED <<sessions, handles>>
       ELSE CloseAll

\* one awaited phase of the teardown _close_all is in; an exception leaves close()
CloseHandleStep ==
  \E raised \in BOOLEAN :
    LET id == Head(closer.ids)
        h == handles[id]
        h2 == TdStep(h, raised)
        rest == Tail(closer.ids)
    IN
    /\ closer.pc = "handles"
    /\ (raised => h.td # "controller")
    /\ resp' = NoResp
    /\ UNCHANGED <<cfg, controlVars, edgeVars, sessions, prewarm_headless, prewarm_vnc, creating, topups, kicks,
                   prewarm_task, deleting, reaper, now>>
    /\ servers' = TdServers(h)
    /\ chains' = TdChains(h)
    /\ vnc_pool' = TdPool(h)
    /\ closer' = IF TdRunning(h2) THEN closer
                 ELSE IF h2.td = "raised" THEN [RaisedCloser EXCEPT !.ids = rest]
                 ELSE IF rest = << >> THEN WaitingCloser("done")
                 ELSE [closer EXCEPT !.ids = rest]
    /\ handles' = [i \in DOMAIN handles |->
                     IF i = id THEN h2
                     ELSE IF h2.td = "done" /\ rest # << >> /\ i = Head(rest)
                     THEN TdBegin(handles[i])
                     ELSE handles[i]]

----------------------------------------------------------------------------
(* The runner *)

\* a runner with prewarming switched off (prewarm_headless = prewarm_vnc = 0),
\* serving requests without start_url
RunnerCfgs ==
  [nd : {RunnerSpan}, nv : {RunnerSpan}, nw : {RunnerSpan}, vnc_available : BOOLEAN,
   prewarm_headless : {0}, prewarm_vnc : {0},
   max_sessions : {MaxSessions}, max_time : {MaxTime}, max_ttl : {MaxTtl},
   start_urls : {FALSE}, proxies : {FALSE}]

Init ==
  /\ cfg \in RunnerCfgs
  /\ vnc_pool = NewPool(cfg)
  /\ resp = NoResp
  /\ RunnerInit

Next ==
  \/ CreateBegin \/ CreateVncStarted \/ CreateVncAborted \/ CreateLaunched \/ CreateStopVnc
  \/ Touch \/ Delete \/ DeleteStep
  \/ Tick \/ ReaperTick \/ ReaperStep
  \/ TopUpKickBegin
  \/ CloseBegin \/ CloseCleanupAwaited \/ CloseHandleStep

Spec == Init /\ [][Next]_vars

\* a runner that keeps one headless and one VNC browser server prewarmed
PrewarmCfgs ==
  [nd : {RunnerSpan}, nv : {RunnerSpan}, nw : {RunnerSpan}, vnc_available : {TRUE},
   prewarm_headless : {PrewarmHeadless}, prewarm_vnc : {PrewarmVnc},
   max_sessions : {PrewarmSessions}, max_time : {0}, max_ttl : {MaxTtl},
   start_urls : {FALSE}, proxies : {FALSE}]

InitPrewarm ==
  /\ cfg \in PrewarmCfgs
  /\ vnc_pool = NewPool(cfg)
  /\ resp = NoResp
  /\ RunnerInit

NextPrewarm ==
  \/ CreateBegin \/ CreateVncStarted \/ CreateVncAborted \/ CreateLaunched \/ CreateStopVnc
  \/ Delete \/ DeleteStep
  \/ TopUpLoopBegin \/ TopUpKickBegin \/ TopUpHeadlessLaunched \/ TopUpVncStarted
  \/ TopUpVncAborted \/ TopUpVncLaunched \/ TopUpVncStopped
  \/ CloseBegin \/ CloseCleanupAwaited \/ ClosePrewarmAwaited
  \/ CloseItemStep \/ CloseHandleStep

SpecPrewarm == InitPrewarm /\ [][NextPrewarm]_vars

\* the prewarm stacks as the first round of _prewarm_loop leaves them when
\* every launch succeeds: the headless entries first, then the VNC entries
WarmHeadless ==
  [i \in 1..PrewarmHeadlessTarget |-> [server |-> i, vnc_session |-> None, headless |-> TRUE]]

WarmVnc ==
  [i \in 1..PrewarmVncTarget |->
     [server |-> PrewarmHeadlessTarget + i,
      vnc_session |-> VncSlot(VncDisplayMin + i - 1, VncPortMin + i - 1, VncWsPortMin + i - 1),
      headless |-> FALSE]]

WarmSlots == {WarmVnc[i].vnc_session : i \in DOMAIN WarmVnc}

WarmCfgs ==
  [nd : {RunnerSpan}, nv : {RunnerSpan}, nw : {RunnerSpan}, vnc_available : {TRUE},
   prewarm_headless : {PrewarmHeadless}, prewarm_vnc : {PrewarmVnc},
   max_sessions : {MaxSessions}, max_time : {0}, max_ttl : {MaxTtl},
   start_urls : {FALSE}, proxies : {FALSE}]

\* a runner after start-up, both prewarm stacks at their targets, the
\* prewarm task asleep between two rounds
WarmInit ==
  /\ NoWorkers
  /\ ControlInit
  /\ EdgeInit
  /\ vnc_pool = [display_pool |-> SubSeq(NewPool(cfg).display_pool, PrewarmVncTarget + 1, cfg.nd),
                 vnc_ports    |-> SubSeq(NewPool(cfg).vnc_ports, PrewarmVncTarget + 1, cfg.nv),
                 ws_ports     |-> SubSeq(NewPool(cfg).ws_ports, PrewarmVncTarget + 1, cfg.nw),
                 active       |-> WarmSlots]
  /\ resp = NoResp
  /\ sessions = {}
  /\ handles = << >>
  /\ prewarm_headless = WarmHeadless
  /\ prewarm_vnc = WarmVnc
  /\ servers = 1..(PrewarmHeadlessTarget + PrewarmVncTarget)
  /\ chains = WarmSlots
  /\ creating = {}
  /\ topups = {}
  /\ kicks = 0
  /\ prewarm_task = "sleep"
  /\ deleting = {}
  /\ reaper = IdleReaper
  /\ closer = IdleCloser
  /\ now = 0

InitWarm ==
  /\ cfg \in WarmCfgs
  /\ WarmInit

\* create(), delete() and the top-up rounds of a running service
NextWarm ==
  \/ CreateBegin \/ CreateVncStarted \/ CreateVncAborted \/ CreateLaunched \/ CreateStopVnc
  \/ Delete \/ DeleteStep
  \/ TopUpLoopBegin \/ TopUpKickBegin \/ TopUpHeadlessLaunched \/ TopUpVncStarted
  \/ TopUpVncAborted \/ TopUpVncLaunched \/ TopUpVncStopped

SpecWarm == InitWarm /\ [][NextWarm]_vars

\* the runner after start-up, serving requests with and without a proxy
\* override
ProxyCfgs ==
  [nd : {RunnerSpan}, nv : {RunnerSpan}, nw : {RunnerSpan}, vnc_available : {TRUE},
   prewarm_headless : {PrewarmHeadless}, prewarm_vnc : {PrewarmVnc},
   max_sessions : {MaxSessions}, max_time : {0}, max_ttl : {0},
   start_urls : {FALSE}, proxies : {TRUE}]

InitProxy ==
  /\ cfg \in ProxyCfgs
  /\ WarmInit

NextProxy ==
  \/ CreateBegin \/ CreateVncStarted \/ CreateVncAborted \/ CreateLaunched \/ CreateStopVnc
  \/ Delete \/ DeleteStep

SpecProxy == InitProxy /\ [][NextProxy]_vars

\* a runner without prewarming that serves requests with and without start_url
PreloadCfgs ==
  [nd : {RunnerSpan}, nv : {RunnerSpan}, nw : {RunnerSpan}, vnc_available : {TRUE},
   prewarm_headless : {0}, prewarm_vnc : {0},
   max_sessions : {PrewarmSessions}, max_time : {MaxTime}, max_ttl : {MaxTtl},
   start_urls : {TRUE}, proxies : {FALSE}]

InitPreload ==
  /\ cfg \in PreloadCfgs
  /\ vnc_pool = NewPool(cfg)
  /\ resp = NoResp
  /\ RunnerInit

NextPreload ==
  \/ CreateBegin \/ CreateVncStarted \/ CreateVncAborted \/ CreateLaunched \/ CreateStopVnc
  \/ BootstrapDone
  \/ Touch \/ Delete \/ DeleteStep
  \/ Tick \/ ReaperTick \/ ReaperStep
  \/ TopUpKickBegin
  \/ CloseBegin \/ CloseCleanupAwaited \/ CloseBootstrapAwaited \/ CloseHandleStep

SpecPreload == InitPreload /\ [][NextPreload]_vars

----------------------------------------------------------------------------
(* C4: every session that get(), touch() or a listing returns from the session
   table has status READY; INIT, TERMINATING and DEAD are never observable
   through the table. *)
C4_TableReady ==
  /\ \A id \in Ids : GetResult(id).found => GetResult(id).status = "READY"
  /\ \A id \in sessions : Touched(handles[id]).status = "READY"
  /\ \A e \in ListResult : e.status = "READY"

\* one session is in the table while another one, taken out by delete() or by
\* the reaper, is TERMINATING with its teardown still running
C4_Witness ==
  /\ \E id \in sessions : GetResult(id).found
  /\ \E id \in DOMAIN handles :
       /\ id \notin sessions
       /\ handles[id].status = "TERMINATING"
       /\ TdRunning(handles[id])

(* C5: whatever the interleaving of delete() calls, reaper ticks and close(),
   every session is taken out of the table at most once, by exactly one of
   them once it is out, and _shutdown_handle is entered for it at most once;
   a delete(id) that does not find the session returns not-found and changes
   neither the table, nor a handle, nor the pool. *)
C5_RemovedOnce ==
  /\ [](\A id \in DOMAIN handles :
          /\ handles[id].removed = (IF id \in sessions THEN 0 ELSE 1)
          /\ handles[id].shutdowns <= handles[id].removed)
  /\ [][(resp'.op = "delete" /\ ~resp'.found) =>
          UNCHANGED <<sessions, handles, vnc_pool, servers, chains>>]_vars

\* delete() answered not-found for a session whose teardown, entered by an
\* earlier delete(), by the reaper or by close(), is still running
C5_Witness ==
  /\ resp.op = "delete"
  /\ ~resp.found
  /\ \E id \in DOMAIN handles :
       /\ handles[id].removed = 1
       /\ handles[id].shutdowns = 1
       /\ TdRunning(handles[id])
  /\ reaper.pc = "teardown"

(* C6: once close() has begun, no create() call, not even one that was waiting
   on a launch when close() started, puts a session into the table, and the
   table of a manager whose close() has returned is empty. *)
C6_NoInsertOnceClosing ==
  /\ [](closer.pc = "done" => sessions = {})
  /\ [][closer.pc # "idle" => sessions' \subseteq sessions]_vars

\* close() has returned, and a session inserted after close() began is in the
\* table with its browser server running
C6_Leak ==
  /\ closer.pc = "done"
  /\ \E id \in sessions : handles[id].status = "READY" /\ handles[id].server \in servers

(* C7: when the browser-server launch or the VNC chain start fails during
   create(), create() raises, no session is inserted, and afterwards no slot of
   the request is active and no child process of the request runs. *)
C7_FailedCreateClean ==
  [][(resp'.op = "create" /\ ~resp'.ok) =>
       /\ sessions' = sessions
       /\ handles' = handles
       /\ resp'.slot \notin vnc_pool'.active
       /\ resp'.slot \notin chains'
       /\ resp'.server \notin servers']_vars

\* create() has raised after a failed VNC chain start and the slot it acquired
\* is still active, owned by nothing
C7_Leak ==
  /\ resp.op = "create"
  /\ ~resp.ok
  /\ resp.err = "VncStart"
  /\ resp.slot \in vnc_pool.active
  /\ creating = {}
  /\ handles = << >>

(* C9: a reaper tick at time now takes out of the table exactly the sessions
   with last_seen_at + idle_ttl_seconds <= now and leaves every other session
   in the table untouched; after the tick a removed session is in no listing
   and get(id) returns not-found for it. *)
C9_ReaperExact ==
  [][resp'.op = "reap" =>
       /\ sessions' = {id \in sessions :
                         handles[id].last_seen_at + handles[id].idle_ttl_seconds > now}
       /\ \A id \in sessions' : handles'[id] = handles[id]
       /\ \A id \in sessions \ sessions' :
            /\ handles[id].last_seen_at + handles[id].idle_ttl_seconds <= now
            /\ GetResult(id)' = NotFound
            /\ \A e \in ListResult' : e.id # id]_vars

\* a tick has just removed a session whose deadline equals now and has kept a
\* session that was touched at now
C9_Witness ==
  /\ resp.op = "reap"
  /\ reaper.pc = "teardown"
  /\ \E id \in DOMAIN handles :
       /\ id = Head(reaper.stale)
       /\ handles[id].last_seen_at + handles[id].idle_ttl_seconds = now
       /\ GetResult(id) = NotFound
  /\ \E id \in sessions : handles[id].last_seen_at = now /\ handles[id].created_at < now

(* C10: a failure while tearing down one expired session is never fatal to the
   reaper: the task does not end, and the sessions that expired in the same
   tick are still torn down. *)
C10_ReaperNeverFatal ==
  /\ reaper.pc # "crashed"
  /\ (reaper.stale # << >> => reaper.pc = "teardown")

\* the reaper task has ended with the exception of one teardown while a session
\* of the same tick, out of the table, was never torn down and holds its slot
C10_Leak ==
  /\ reaper.pc = "crashed"
  /\ \E id \in SeqElems(reaper.stale) :
       /\ handles[id].status = "TERMINATING"
       /\ handles[id].shutdowns = 0
       /\ handles[id].server \in servers
       /\ handles[id].vnc_session \in vnc_pool.active

\* no call and no task of the manager is in progress
Quiescent ==
  /\ creating = {}
  /\ topups = {}
  /\ kicks = 0
  /\ deleting = {}
  /\ Pending = {}
  /\ reaper.pc # "teardown"
  /\ closer.pc \in {"idle", "done", "raised"}

(* C1: every slot and child process allocated to a session is released in the
   end: at quiescence every session that was removed from the table has its
   browser server closed, and with an empty table and empty prewarm stacks no
   slot of a session is active in the pool. *)
C1_ReleasedAtQuiescence ==
  Quiescent =>
    /\ \A id \in DOMAIN handles : id \notin sessions => handles[id].server \notin servers
    /\ (sessions = {} /\ prewarm_headless = << >> /\ prewarm_vnc = << >>) =>
         \A id \in DOMAIN handles : handles[id].vnc_session \notin vnc_pool.active

\* close() has returned without an error, and a session the reaper had removed
\* was never torn down: its server runs and its slot is active
C1_Leak ==
  /\ Quiescent
  /\ closer.pc = "done"
  /\ sessions = {}
  /\ \E id \in DOMAIN handles :
       /\ handles[id].removed = 1
       /\ handles[id].shutdowns = 0
       /\ handles[id].server \in servers
       /\ handles[id].vnc_session \in vnc_pool.active

\* the handle owns a VncSession
Owns(h) == h.vnc_session # None

(* C8 as stated: while INIT or READY a handle owns a VncSession iff it was
   created with vnc=true; in every other status, TERMINATING and DEAD, it owns
   none. *)
C8_OwnsOnlyWhileLive ==
  \A id \in DOMAIN handles :
    /\ handles[id].status \in {"INIT", "READY"} => (Owns(handles[id]) <=> handles[id].vnc)
    /\ handles[id].status \in {"TERMINATING", "DEAD"} => ~Owns(handles[id])

(* C8, amended: a handle created with vnc=false never owns a VncSession; a
   handle created with vnc=true, from the prewarm stack or on demand, owns one
   while INIT, READY or TERMINATING (the teardown stops it), and owns none
   once DEAD. *)
C8_OwnsUntilDead ==
  \A id \in DOMAIN handles :
    /\ handles[id].status \in {"INIT", "READY", "TERMINATING"} =>
         (Owns(handles[id]) <=> handles[id].vnc)
    /\ handles[id].status = "DEAD" => ~Owns(handles[id])
    /\ handles[id].status \in {"INIT", "READY", "TERMINATING", "DEAD"}

\* create(vnc=true) has just returned a READY session that owns the VncSession
\* of the entry it took from the prewarm stack, with that slot active
C8_Witness ==
  /\ resp.op = "create"
  /\ resp.ok
  /\ resp.prewarmed
  /\ handles[resp.id].vnc
  /\ handles[resp.id].status = "READY"
  /\ Owns(handles[resp.id])
  /\ handles[resp.id].vnc_session \in vnc_pool.active

-----------------------------------------------------------------------------
(* C11: once delete() or the reaper has taken a session out of the table,
   get(id) and touch(id) answer not-found from then on, also while its
   teardown runs: the session is never put back, and a touch() that answers
   not-found leaves the table and every handle as they were. *)
C11_RemovedStaysNotFound ==
  [][/\ \A id \in DOMAIN handles :
          handles[id].removed > 0 =>
            /\ GetResult(id) = NotFound
            /\ TouchResult(id) = NotFound
            /\ id \notin sessions'
            /\ handles'[id].last_seen_at = handles[id].last_seen_at
     /\ (resp'.op = "touch" /\ ~resp'.found) => UNCHANGED <<sessions, handles>>]_vars

\* touch() answered not-found while the teardown of a removed session, last
\* seen before now, is still running
C11_Witness ==
  /\ resp.op = "touch"
  /\ ~resp.found
  /\ \E id \in DOMAIN handles :
       /\ handles[id].removed > 0
       /\ TdRunning(handles[id])
       /\ handles[id].last_seen_at < now
       /\ GetResult(id) = NotFound

(* C12: touch(id) of a session of the table changes last_seen_at of that
   session and nothing else: the new value is not below the old one nor below
   created_at, every other field of the handle and every other handle is
   unchanged, and the table holds the same sessions. *)
C12_TouchFrame ==
  [][(resp'.op = "touch" /\ resp'.found) =>
       /\ sessions' = sessions
       /\ DOMAIN handles' = DOMAIN handles
       /\ \E id \in sessions :
            /\ handles'[id] = [handles[id] EXCEPT !.last_seen_at = handles'[id].last_seen_at]
            /\ handles'[id].last_seen_at >= handles[id].last_seen_at
            /\ handles'[id].last_seen_at >= handles[id].created_at
            /\ \A other \in DOMAIN handles \ {id} : handles'[other] = handles[other]
       /\ UNCHANGED <<vnc_pool, servers, chains, prewarm_headless, prewarm_vnc>>]_vars

\* touch() has just moved last_seen_at of a session past its creation time
C12_Witness ==
  /\ resp.op = "touch"
  /\ resp.found
  /\ \E id \in sessions :
       /\ handles[id].last_seen_at = now
       /\ handles[id].created_at < now

-----------------------------------------------------------------------------
(* C13 as stated: whenever at least one other element was free when a held
   slot was released, the acquire() that immediately follows returns neither
   the display nor a port of the slot just released. *)
C13_NoImmediateReuse ==
  (/\ resp.op = "acquire"
   /\ resp.ok
   /\ resp.prev # None
   /\ \/ Len(resp.before.display_pool) >= 2
      \/ Len(resp.before.vnc_ports) >= 2
      \/ Len(resp.before.ws_ports) >= 2)
    => /\ resp.slot.display # resp.prev.display
       /\ resp.slot.vnc_port # resp.prev.vnc_port
       /\ resp.slot.ws_port # resp.prev.ws_port

(* C13, amended: release puts the elements of a held slot at the tail of
   their queues and acquire takes the head of each queue, so the acquire()
   that immediately follows the release returns, queue by queue, an element
   other than the released one whenever that queue held another free
   element, and the released element itself when that queue was empty. *)
C13_FifoPerQueue ==
  (resp.op = "acquire" /\ resp.ok /\ resp.prev # None) =>
    /\ Last(resp.before.display_pool) = resp.prev.display
    /\ Last(resp.before.vnc_ports) = resp.prev.vnc_port
    /\ Last(resp.before.ws_ports) = resp.prev.ws_port
    /\ resp.slot.display = Head(resp.before.display_pool)
    /\ resp.slot.vnc_port = Head(resp.before.vnc_ports)
    /\ resp.slot.ws_port = Head(resp.before.ws_ports)
    /\ (resp.slot.display # resp.prev.display) <=> (Len(resp.before.display_pool) >= 2)
    /\ (resp.slot.vnc_port # resp.prev.vnc_port) <=> (Len(resp.before.vnc_ports) >= 2)
    /\ (resp.slot.ws_port # resp.prev.ws_port) <=> (Len(resp.before.ws_ports) >= 2)

\* with fewer displays than ports, the acquire() right after a release got
\* the released display back together with ports that were free before
C13_Witness ==
  /\ resp.op = "acquire"
  /\ resp.ok
  /\ resp.prev # None
  /\ resp.slot.display = resp.prev.display
  /\ resp.slot.vnc_port # resp.prev.vnc_port
  /\ resp.slot.ws_port # resp.prev.ws_port
  /\ vnc_pool.active # {resp.slot}

(* C14: acquire() fails exactly when one of the three free queues is empty,
   and then leaves the queues and the active set as they were; the acquire()
   that follows the release of a held slot into a pool with no free element
   succeeds and returns a slot equal to the released one. *)
C14_NoCapacity ==
  /\ resp.op = "acquire" =>
       /\ resp.ok <=> /\ Len(resp.before.display_pool) >= 1
                      /\ Len(resp.before.vnc_ports) >= 1
                      /\ Len(resp.before.ws_ports) >= 1
       /\ ~resp.ok => (vnc_pool = resp.before /\ resp.slot = None)
  /\ (/\ resp.op = "acquire"
      /\ resp.prev # None
      /\ Len(resp.before.display_pool) = 1
      /\ Len(resp.before.vnc_ports) = 1
      /\ Len(resp.before.ws_ports) = 1)
       => /\ resp.ok
          /\ resp.slot = resp.prev
          /\ resp.slot \in vnc_pool.active

\* acquire() failed with only the display queue empty, after an earlier
\* acquire() had got back the slot released into the exhausted pool
C14_Witness ==
  /\ resp.op = "acquire"
  /\ ~resp.ok
  /\ resp.before.display_pool = << >>
  /\ resp.before.vnc_ports # << >>
  /\ resp.before.ws_ports # << >>
  /\ Cardinality(vnc_pool.active) >= 2

\* the acquire() after the release of the only slot of an exhausted pool
\* returned that slot
C14_WitnessReuse ==
  /\ resp.op = "acquire"
  /\ resp.ok
  /\ resp.prev # None
  /\ resp.slot = resp.prev
  /\ resp.before.active # {}
  /\ Capacity(cfg) >= 2

-----------------------------------------------------------------------------
\* every create() has been followed by its delete(), no top-up round, kick,
\* teardown or close() is running or waiting to run, and no entry is missing
C15_Settled ==
  /\ Quiescent
  /\ closer.pc = "idle"
  /\ sessions = {}
  /\ NeedHeadless = 0
  /\ NeedVnc = 0

(* C15: once every created session has been deleted and top-up has settled,
   both prewarm stacks hold exactly their targets and the pool has exactly
   the slots of the prewarmed VNC entries active, as after start-up. *)
C15_RestoredAtQuiescence ==
  C15_Settled =>
    /\ Len(prewarm_headless) = PrewarmHeadlessTarget
    /\ Len(prewarm_vnc) = PrewarmVncTarget
    /\ Cardinality(vnc_pool.active) = PrewarmVncTarget
    /\ Len(vnc_pool.display_pool) = cfg.nd - PrewarmVncTarget
    /\ Len(vnc_pool.vnc_ports) = cfg.nv - PrewarmVncTarget
    /\ Len(vnc_pool.ws_ports) = cfg.nw - PrewarmVncTarget

\* settled after one create/delete pair in which nothing failed, with a
\* headless stack above its target: the kicked round and the periodic round
\* both saw the deficit of the entry create() took
C15_Overshoot ==
  /\ C15_Settled
  /\ Len(handles) = 1
  /\ handles[1].td = "done"
  /\ handles[1].exc = "none"
  /\ Len(prewarm_headless) > PrewarmHeadlessTarget
  /\ Len(prewarm_vnc) = PrewarmVncTarget
  /\ vnc_pool.active = {prewarm_vnc[i].vnc_session : i \in DOMAIN prewarm_vnc}
  /\ servers = {prewarm_headless[i].server : i \in DOMAIN prewarm_headless}
                 \cup {prewarm_vnc[i].server : i \in DOMAIN prewarm_vnc}

-----------------------------------------------------------------------------
(* C16: at most one top-up round is in flight at any time: a round kicked by
   create() and the periodic round of the prewarm task never have computed
   their deficits and be launching at the same moment. *)
C16_OneRoundInFlight == Cardinality(topups) <= 1

\* the kicked round and the periodic round are both suspended in the launch
\* of a headless server, each for the one entry create() took from the stack
C16_TwoRounds ==
  /\ \E t \in topups : t.kind = "loop" /\ t.pc = "h_launch" /\ t.need_headless = 1
  /\ \E t \in topups : t.kind = "kick" /\ t.pc = "h_launch" /\ t.need_headless = 1
  /\ prewarm_headless = << >>
  /\ Len(prewarm_vnc) = PrewarmVncTarget
  /\ Cardinality(sessions) = 1

-----------------------------------------------------------------------------
(* C17: once close() has started no top-up round adds an entry to a prewarm
   stack, and once close() has returned both stacks are empty and remain
   empty, the browser server of every entry having been closed and its VNC
   session stopped with the slot released. *)
C17_ShutdownDrains ==
  /\ [][closer.pc # "idle" =>
          /\ Len(prewarm_headless') <= Len(prewarm_headless)
          /\ Len(prewarm_vnc') <= Len(prewarm_vnc)]_vars
  /\ [](closer.pc = "done" => (prewarm_headless = << >> /\ prewarm_vnc = << >>))

\* close() has returned without an error, nothing is running any more, and a
\* prewarm stack holds an entry whose browser server still runs: a kicked
\* round that close() does not know of pushed it after _close_prewarmed
C17_Leak ==
  /\ closer.pc = "done"
  /\ Quiescent
  /\ prewarm_headless # << >>
  /\ \A i \in DOMAIN prewarm_headless : prewarm_headless[i].server \in servers
  /\ \A id \in DOMAIN handles : handles[id].status = "DEAD" /\ handles[id].exc = "none"

-----------------------------------------------------------------------------
(* C18: when a top-up round has started a VncSession and the launch of the
   browser server for it fails, the round stops that VncSession and releases
   its slot before it ends, and pushes no entry: while the stop is awaited
   the slot is still active and owned by no entry, and the step that ends
   the round leaves the slot free and the VNC stack as it was, with the
   processes of the VncSession gone whenever the round ends by itself
   (rather than by close() cancelling the prewarm task during the stop). *)
C18_FailedVncReleased ==
  /\ [](\A t \in topups :
          t.pc = "v_stop" =>
            /\ t.vnc_session \in vnc_pool.active
            /\ t.server \notin servers
            /\ \A i \in DOMAIN prewarm_vnc : prewarm_vnc[i].vnc_session # t.vnc_session)
  /\ [][\A t \in topups :
          /\ (t.pc = "v_launch" /\ [t EXCEPT !.pc = "v_stop"] \in topups')
               => prewarm_vnc' = prewarm_vnc
          /\ (t.pc = "v_stop" /\ t \notin topups')
               => /\ t.vnc_session \notin vnc_pool'.active
                  /\ closer' = closer => t.vnc_session \notin chains'
                  /\ t.vnc_session.display \in SeqElems(vnc_pool'.display_pool)
                  /\ prewarm_vnc' = prewarm_vnc
                  /\ \A u \in topups' : u.vnc_session # t.vnc_session]_vars

\* a round has just ended after its VNC launch failed, with the slot it had
\* acquired free again while another VNC entry keeps its own slot
C18_Witness ==
  /\ resp.op = "top_up"
  /\ ~resp.ok
  /\ resp.slot \notin vnc_pool.active
  /\ resp.slot \notin chains
  /\ resp.slot.display \in SeqElems(vnc_pool.display_pool)
  /\ vnc_pool.active # {}

-----------------------------------------------------------------------------
(* C19: a create request that carries a per-session proxy override takes no
   entry from the prewarm stacks: the session it returns runs on a browser
   server launched for it with that proxy, and both stacks are as long after
   the request as before. *)
C19_ProxyBypassesPrewarm ==
  /\ [](resp.op = "create" /\ resp.ok /\ resp.proxy => (~resp.prewarmed /\ resp.override))
  /\ [][(resp'.op = "create" /\ resp'.ok /\ resp'.proxy) =>
          /\ Len(prewarm_headless') = Len(prewarm_headless)
          /\ Len(prewarm_vnc') = Len(prewarm_vnc)]_vars

\* create() with a proxy override has returned a session that runs on the
\* server of the entry it took from the headless stack
C19_TookPrewarmed ==
  /\ resp.op = "create"
  /\ resp.ok
  /\ resp.proxy
  /\ resp.prewarmed
  /\ ~resp.override
  /\ handles[resp.id].headless
  /\ handles[resp.id].server = WarmHeadless[1].server
  /\ prewarm_headless = << >>

-----------------------------------------------------------------------------
(* Control plane: AppState.pick_worker *)

MaxWorkers == 2

MaxPicks == 4

WorkerNames == {"a", "b"}

\* WorkerConfig: name and supports_vnc (the other fields play no part here)
WorkerConfigs == [name : WorkerNames, supports_vnc : BOOLEAN]

\* settings.workers: any list of workers, names not necessarily distinct
WorkerLists == UNION {[1..n -> WorkerConfigs] : n \in 0..MaxWorkers}

\* a selection that would walk the filtered list from its end
RoundRobinReversed(ws, c) == ws[Len(ws) - (c % Len(ws))]

\* workers[self._rr_index % len(workers)], lists being indexed from 1 here
RoundRobin(ws, c) == ws[(c % Len(ws)) + 1]

\* a filter that would let every worker through
EligibleAny(w, require_vnc) == TRUE

\* the filter of pick_worker: not require_vnc or w.supports_vnc
Eligible(w, require_vnc) == ~require_vnc \/ w.supports_vnc

\* [w for w in self.list_workers() if not require_vnc or w.supports_vnc]
Filtered(require_vnc) == SelectSeq(workers, LAMBDA w : Eligible(w, require_vnc))

\* the first worker of the list ws named preferred
Named(ws, preferred) ==
  ws[CHOOSE i \in 1..Len(ws) :
       /\ ws[i].name = preferred
       /\ \A j \in 1..(i - 1) : ws[j].name # preferred]

Picked(w, preferred, require_vnc) ==
  [op |-> "pick", ok |-> TRUE, status |-> 200, name |-> w.name, supports_vnc |-> w.supports_vnc,
   preferred |-> preferred, require_vnc |-> require_vnc, index |-> rr_index]

PickFailed(status, preferred, require_vnc) ==
  [op |-> "pick", ok |-> FALSE, status |-> status, name |-> "", supports_vnc |-> FALSE,
   preferred |-> preferred, require_vnc |-> require_vnc, index |-> rr_index]

\* a pick_worker that would fall back to round-robin for an unknown name
PickResultFallback(preferred, require_vnc) ==
  LET ws == Filtered(require_vnc) IN
  IF preferred # "" /\ \E i \in 1..Len(ws) : ws[i].name = preferred
  THEN Picked(Named(ws, preferred), preferred, require_vnc)
  ELSE IF ws = << >>
  THEN PickFailed(503, preferred, require_vnc)
  ELSE Picked(RoundRobin(ws, rr_index), preferred, require_vnc)

\* what pick_worker(preferred, require_vnc=...) returns or raises; preferred ""
\* stands for None and for the empty string, which are both falsy
PickResult(preferred, require_vnc) ==
  LET ws == Filtered(require_vnc) IN
  IF preferred # ""
  THEN IF \E i \in 1..Len(ws) : ws[i].name = preferred
       THEN Picked(Named(ws, preferred), preferred, require_vnc)
       ELSE PickFailed(404, preferred, require_vnc)
  ELSE IF ws = << >>
  THEN PickFailed(503, preferred, require_vnc)
  ELSE Picked(RoundRobin(ws, rr_index), preferred, require_vnc)

\* self._rr_index += 1, on the round-robin branch only
Advances(result) == result.ok /\ result.preferred = ""

\* one pick_worker call
PickWorker ==
  \E preferred \in WorkerNames \cup {""}, require_vnc \in BOOLEAN :
    LET result == PickResult(preferred, require_vnc) IN
    /\ Len(picks) < MaxPicks
    /\ resp' = result
    /\ picks' = Append(picks, result)
    /\ rr_index' = IF Advances(result) THEN rr_index + 1 ELSE rr_index
    /\ UNCHANGED <<cfg, vnc_pool, runnerVars, edgeVars, workers>>

\* the control plane runs no runner of its own
ControlCfg ==
  [nd |-> 0, nv |-> 0, nw |-> 0, vnc_available |-> FALSE,
   prewarm_headless |-> 0, prewarm_vnc |-> 0,
   max_sessions |-> 0, max_time |-> 0, max_ttl |-> 0, start_urls |-> FALSE, proxies |-> FALSE]

InitControl ==
  /\ cfg = ControlCfg
  /\ vnc_pool = NewPool(cfg)
  /\ resp = NoResp
  /\ workers \in WorkerLists
  /\ ControlInit
  /\ EdgeInit
  /\ sessions = {}
  /\ handles = << >>
  /\ prewarm_headless = << >>
  /\ prewarm_vnc = << >>
  /\ servers = {}
  /\ chains = {}
  /\ creating = {}
  /\ topups = {}
  /\ kicks = 0
  /\ prewarm_task = "none"
  /\ deleting = {}
  /\ reaper = IdleReaper
  /\ closer = IdleCloser
  /\ now = 0

NextControl == PickWorker

SpecControl == InitControl /\ [][NextControl]_vars

\* the calls so far that took the round-robin branch and returned a worker
RoundRobinPicks(n) == {i \in 1..n : picks[i].ok /\ picks[i].preferred = ""}

(* C20: a pick_worker call without a preferred name, made when the counter is
   c, returns element c mod len of the list filtered for that call (all
   workers, or the VNC-capable ones) and adds one to the counter, which
   counts such calls from 0; calls that name a worker or fail leave the
   counter alone.  With workers [a, b], b alone VNC-capable, three picks
   return a, b, a and a following VNC-only pick returns b. *)
C20_RoundRobin ==
  /\ [](/\ rr_index = Cardinality(RoundRobinPicks(Len(picks)))
        /\ \A i \in RoundRobinPicks(Len(picks)) :
             LET ws == SelectSeq(workers, LAMBDA w : ~picks[i].require_vnc \/ w.supports_vnc)
             IN /\ picks[i].index = Cardinality(RoundRobinPicks(i - 1))
                /\ ws # << >>
                /\ picks[i].name = ws[(picks[i].index % Len(ws)) + 1].name
                /\ picks[i].supports_vnc = ws[(picks[i].index % Len(ws)) + 1].supports_vnc
        /\ (/\ workers = <<[name |-> "a", supports_vnc |-> FALSE],
                           [name |-> "b", supports_vnc |-> TRUE]>>
            /\ Len(picks) = 4
            /\ \A i \in 1..4 : picks[i].preferred = "" /\ (picks[i].require_vnc <=> i = 4))
             => /\ picks[1].name = "a"
                /\ picks[2].name = "b"
                /\ picks[3].name = "a"
                /\ picks[4].name = "b")
  /\ [][/\ (resp'.op = "pick" /\ resp'.ok /\ resp'.preferred = "") => rr_index' = rr_index + 1
        /\ (resp'.op = "pick" /\ (~resp'.ok \/ resp'.preferred # "")) => rr_index' = rr_index]_vars

\* with workers [a, b], b alone VNC-capable, three picks of any worker and
\* then a VNC-only pick have returned a, b, a, b
C20_Witness ==
  /\ workers = <<[name |-> "a", supports_vnc |-> FALSE], [name |-> "b", supports_vnc |-> TRUE]>>
  /\ Len(picks) = 4
  /\ \A i \in 1..4 : picks[i].ok /\ picks[i].preferred = "" /\ (picks[i].require_vnc <=> i = 4)
  /\ <<picks[1].name, picks[2].name, picks[3].name, picks[4].name>> = <<"a", "b", "a", "b">>
  /\ rr_index = 4

\* ---------------------------------------------------------------------------
\* pick_worker called for ever.  The calls are not logged and the counter is
\* kept modulo RrPeriod, a common multiple of every possible length of a
\* filtered list: pick_worker reads the counter only as _rr_index % len(workers)
\* (main.py:123), so the residue decides every result.
\* ---------------------------------------------------------------------------

RECURSIVE Factorial(_)
Factorial(n) == IF n <= 1 THEN 1 ELSE n * Factorial(n - 1)

RrPeriod == Factorial(MaxWorkers)

\* one pick_worker call of an unending sequence of calls
PickWorkerLive ==
  \E preferred \in WorkerNames \cup {""}, require_vnc \in BOOLEAN :
    LET result == PickResult(preferred, require_vnc) IN
    /\ resp' = result
    /\ rr_index' = IF Advances(result) THEN (rr_index + 1) % RrPeriod ELSE rr_index
    /\ UNCHANGED <<cfg, vnc_pool, runnerVars, edgeVars, workers, picks>>

NextControlLive == PickWorkerLive

\* clients keep calling: the claim is about infinite sequences of calls
SpecControlLive == InitControl /\ [][NextControlLive]_vars /\ WF_vars(NextControlLive)

\* the last call was a round-robin pick made with require_vnc = v
RrCall(v) == resp.op = "pick" /\ resp.ok /\ resp.preferred = "" /\ resp.require_vnc = v

\* ... and it returned worker w
RrReturned(v, w) ==
  RrCall(v) /\ resp.name = w.name /\ resp.supports_vnc = w.supports_vnc

\* C21: in an infinite sequence of pick_worker calls without a preferred name,
\* whatever the mix of require_vnc values on the shared counter, every worker
\* of a filtered set is returned infinitely often to the calls that use that
\* set: if round-robin calls with require_vnc = v recur for ever, then for
\* every worker w of the list filtered by v a call with require_vnc = v
\* returns w again and again.
C21_NoStarvation ==
  \A v \in BOOLEAN : \A w \in WorkerConfigs :
    ([]<>RrCall(v) /\ [](w \in SeqElems(Filtered(v)))) => []<>RrReturned(v, w)

\* C21, the part the code does guarantee: while round-robin calls recur, the
\* counter comes back again and again to a position at which a call on the
\* set filtered by v would return w.
C21_SelectableInfinitelyOften ==
  \A v \in BOOLEAN : \A w \in WorkerConfigs :
    ((\E u \in BOOLEAN : []<>RrCall(u)) /\ [](w \in SeqElems(Filtered(v))))
      => []<>(Filtered(v) # << >> /\ RoundRobin(Filtered(v), rr_index) = w)

\* the counter as the call after call i found it
IndexAfter(i) == IF i < Len(picks) THEN picks[i + 1].index ELSE rr_index

\* C22: a call that names a worker returns exactly that worker (the first of
\* that name) when it is in the set filtered by require_vnc and fails with 404
\* otherwise, never falling back to round-robin; a call without a name fails
\* only with 503, on an empty filtered set; named picks and the 404 and 503
\* failures leave the round-robin counter where it was.
C22_PreferredOrNotFound ==
  \A i \in 1..Len(picks) :
    LET p == picks[i]
        ws == Filtered(p.require_vnc)
        known == \E k \in 1..Len(ws) : ws[k].name = p.preferred
    IN
    /\ (p.preferred # "" /\ known) =>
         /\ p.ok /\ p.status = 200
         /\ p.name = p.preferred
         /\ p.supports_vnc = Named(ws, p.preferred).supports_vnc
    /\ (p.preferred # "" /\ ~known) => ~p.ok /\ p.status = 404
    /\ (p.preferred = "" /\ ~p.ok) => p.status = 503 /\ ws = << >>
    /\ (p.preferred # "" \/ ~p.ok) => IndexAfter(i) = p.index

\* a named worker was returned while round-robin stood at another worker, a
\* name outside the VNC-filtered set gave 404 although the worker is
\* configured, an empty VNC set gave 503, and the counter stayed at 1 throughout
C22_Witness ==
  /\ Len(picks) = 4
  /\ workers = <<[name |-> "a", supports_vnc |-> FALSE], [name |-> "b", supports_vnc |-> FALSE]>>
  /\ picks[1].ok /\ picks[1].preferred = "" /\ picks[1].name = "a"
  /\ picks[2].ok /\ picks[2].preferred = "a" /\ picks[2].name = "a" /\ picks[2].index = 1
  /\ picks[3].status = 404 /\ picks[3].preferred = "b" /\ picks[3].require_vnc
  /\ picks[4].status = 503 /\ picks[4].preferred = "" /\ picks[4].require_vnc
  /\ rr_index = 1

\* ---------------------------------------------------------------------------
\* POST /sessions through the three tiers: the control plane picks a worker
\* and proxies the request, the worker checks its own settings and calls its
\* runner, the runner checks that the VNC tooling is installed.
\* ---------------------------------------------------------------------------

\* a deployed worker: its WorkerConfig entry at the control plane, the
\* supports_vnc setting of the worker process behind it, and whether its
\* runner found Xvfb, x11vnc and websockify
Deployments ==
  [name : WorkerNames, supports_vnc : BOOLEAN, worker_vnc : BOOLEAN, runner_vnc : BOOLEAN]

DeploymentLists == UNION {[1..n -> Deployments] : n \in 0..MaxWorkers}

\* the worker a successful pick_worker call returned
PickedWorker(preferred, require_vnc) ==
  IF preferred # ""
  THEN Named(Filtered(require_vnc), preferred)
  ELSE RoundRobin(Filtered(require_vnc), rr_index)

\* the runner's POST /sessions: 503 when VNC is asked of a runner without the
\* tooling, 201 otherwise
RunnerCreateStatus(w, vnc) == IF vnc /\ ~w.runner_vnc THEN 503 ELSE 201

\* the worker's create_session: 400 before any call to the runner
WorkerRejects(w, vnc) == vnc /\ ~w.worker_vnc

\* the status the worker answers with; raise_for_status() turns a runner
\* error into an unhandled exception, i.e. 500
WorkerCreateStatus(w, vnc) ==
  IF WorkerRejects(w, vnc) THEN 400
  ELSE IF RunnerCreateStatus(w, vnc) >= 400 THEN 500
  ELSE 201

\* the control plane's create_session
ControlCreateSession ==
  \E preferred \in WorkerNames \cup {""}, vnc \in BOOLEAN :
    LET picked == PickResult(preferred, vnc)
        w == PickedWorker(preferred, vnc)
    IN
    /\ resp' = IF picked.ok
               THEN [op |-> "create_session", vnc |-> vnc, preferred |-> preferred,
                     status |-> WorkerCreateStatus(w, vnc),
                     worker_called |-> TRUE, worker |-> w,
                     runner_called |-> ~WorkerRejects(w, vnc),
                     served |-> WorkerCreateStatus(w, vnc) = 201]
               ELSE [op |-> "create_session", vnc |-> vnc, preferred |-> preferred,
                     status |-> picked.status,
                     worker_called |-> FALSE, worker |-> None,
                     runner_called |-> FALSE, served |-> FALSE]
    /\ rr_index' = IF Advances(picked) THEN (rr_index + 1) % RrPeriod ELSE rr_index
    /\ UNCHANGED <<cfg, vnc_pool, runnerVars, edgeVars, workers, picks>>

\* the control plane runs no runner of its own
NoRunner ==
  /\ cfg = ControlCfg
  /\ vnc_pool = NewPool(cfg)
  /\ sessions = {}
  /\ handles = << >>
  /\ prewarm_headless = << >>
  /\ prewarm_vnc = << >>
  /\ servers = {}
  /\ chains = {}
  /\ creating = {}
  /\ topups = {}
  /\ kicks = 0
  /\ prewarm_task = "none"
  /\ deleting = {}
  /\ reaper = IdleReaper
  /\ closer = IdleCloser
  /\ now = 0

InitCreate ==
  /\ NoRunner
  /\ resp = NoResp
  /\ workers \in DeploymentLists
  /\ ControlInit
  /\ EdgeInit

NextCreate == ControlCreateSession

SpecCreate == InitCreate /\ [][NextCreate]_vars

\* C23: a create request with vnc=true is never served by a worker or runner
\* without VNC support.  The control plane hands it only to a worker whose
\* WorkerConfig has supports_vnc, answering 404 when the named worker is not
\* in the VNC set and 503 when no worker is; a worker whose own supports_vnc
\* is false answers 400 and does not call its runner; and a session is
\* created (201) only where control plane, worker and runner all support VNC.
C23_VncOnlyWhereSupported ==
  (resp.op = "create_session" /\ resp.vnc) =>
    /\ resp.worker_called => resp.worker.supports_vnc
    /\ ~resp.worker_called =>
         /\ resp.status = IF resp.preferred # "" THEN 404 ELSE 503
         /\ resp.preferred # "" =>
              ~\E i \in 1..Len(workers) :
                 workers[i].name = resp.preferred /\ workers[i].supports_vnc
         /\ resp.preferred = "" =>
              ~\E i \in 1..Len(workers) : workers[i].supports_vnc
    /\ (resp.worker_called /\ ~resp.worker.worker_vnc) =>
         resp.status = 400 /\ ~resp.runner_called
    /\ resp.runner_called => resp.worker.worker_vnc
    /\ resp.served =>
         resp.worker.supports_vnc /\ resp.worker.worker_vnc /\ resp.worker.runner_vnc

\* a VNC request reached a worker that the control plane lists as VNC-capable
\* but whose own settings say otherwise: 400, runner not called, while a
\* worker without supports_vnc precedes it in the list
C23_Witness ==
  /\ resp.op = "create_session" /\ resp.vnc /\ resp.preferred = ""
  /\ resp.worker_called /\ resp.status = 400 /\ ~resp.runner_called
  /\ Len(workers) = 2 /\ ~workers[1].supports_vnc /\ workers[1].worker_vnc
  /\ resp.worker = workers[2]

\* a VNC request was served with 201 by a fully VNC-capable worker
C23_Served ==
  /\ resp.op = "create_session" /\ resp.vnc /\ resp.served /\ resp.status = 201
  /\ \E i \in 1..Len(workers) : ~workers[i].supports_vnc

\* ---------------------------------------------------------------------------
\* GET /sessions at the control plane: one fetch task per worker, at most
\* max(1, list_sessions_concurrency) of them inside the semaphore, gathered
\* in the order of the worker list.
\* ---------------------------------------------------------------------------

MaxListConcurrency == 2

\* what a worker's GET /sessions can come to: a 200 with a list of sessions,
\* or an httpx.HTTPError (transport failure, or raise_for_status() on an error status)
WorkerReplies ==
  {[ok |-> FALSE, body |-> << >>]} \cup
  {[ok |-> TRUE, body |-> b] : b \in {<< >>, <<"s1">>, <<"s2", "s1">>}}

\* asyncio.Semaphore(max(1, state.settings.list_sessions_concurrency))
SemaphoreSize(setting) == IF setting < 1 THEN 1 ELSE setting

\* SessionDescriptor(worker=worker.name, id=item["id"], ...) for every item
RECURSIVE Labelled(_, _)
Labelled(name, body) ==
  IF body = << >> THEN << >>
  ELSE <<[worker |-> name, id |-> Head(body)]>> \o Labelled(name, Tail(body))

\* what fetch_worker_sessions returns for worker w
Fetched(w, reply) == IF reply.ok THEN Labelled(w.name, reply.body) ELSE << >>

\* a gathering that would stop at the first worker that contributed nothing
RECURSIVE GatheredTruncating(_)
GatheredTruncating(results) ==
  IF results = << >> \/ Head(results) = << >> THEN << >>
  ELSE Head(results) \o GatheredTruncating(Tail(results))

\* [item for worker_sessions in results for item in worker_sessions]
RECURSIVE Gathered(_)
Gathered(results) ==
  IF results = << >> THEN << >>
  ELSE Head(results) \o Gathered(Tail(results))

Fetching == {i \in DOMAIN listing.st : listing.st[i] = "fetching"}

\* list_sessions up to asyncio.gather: nothing to do without workers, else
\* one task per worker, all waiting to enter the semaphore
ListBegin ==
  \E setting \in 0..MaxListConcurrency :
    /\ listing.pc = "idle"
    /\ IF workers = << >>
       THEN /\ listing' = [pc |-> "done", result |-> << >>, order |-> << >>,
                           reply |-> << >>]
            /\ resp' = [op |-> "list_sessions", status |-> 200, result |-> << >>]
       ELSE /\ listing' = [pc |-> "gather", size |-> SemaphoreSize(setting),
                           st |-> [i \in DOMAIN workers |-> "queued"],
                           reply |-> [i \in DOMAIN workers |-> [ok |-> FALSE, body |-> << >>]],
                           results |-> [i \in DOMAIN workers |-> << >>],
                           order |-> << >>]
            /\ resp' = NoResp
    /\ UNCHANGED <<cfg, vnc_pool, runnerVars, controlVars, besidesListing>>

\* a task enters the semaphore and sends its request; the tasks were started
\* in list order and the semaphore wakes its waiters first come, first served
FetchStart ==
  \E i \in DOMAIN workers :
    /\ listing.pc = "gather"
    /\ listing.st[i] = "queued"
    /\ \A j \in 1..(i - 1) : listing.st[j] # "queued"
    /\ Cardinality(Fetching) < listing.size
    /\ listing' = [listing EXCEPT !.st[i] = "fetching"]
    /\ UNCHANGED <<cfg, vnc_pool, resp, runnerVars, controlVars, besidesListing>>

\* the worker's reply, or the failure of the request, arrives: the task
\* leaves the semaphore and returns its descriptors, or [] after the warning
FetchDone ==
  \E i \in DOMAIN workers, reply \in WorkerReplies :
    /\ listing.pc = "gather"
    /\ listing.st[i] = "fetching"
    /\ listing' = [listing EXCEPT !.st[i] = "done",
                                  !.reply[i] = reply,
                                  !.results[i] = Fetched(workers[i], reply),
                                  !.order = Append(@, i)]
    /\ UNCHANGED <<cfg, vnc_pool, resp, runnerVars, controlVars, besidesListing>>

\* asyncio.gather returns once every task has, and the lists are flattened
ListReturn ==
  /\ listing.pc = "gather"
  /\ \A i \in DOMAIN workers : listing.st[i] = "done"
  /\ listing' = [pc |-> "done", result |-> Gathered(listing.results),
                 order |-> listing.order, reply |-> listing.reply]
  /\ resp' = [op |-> "list_sessions", status |-> 200,
              result |-> Gathered(listing.results)]
  /\ UNCHANGED <<cfg, vnc_pool, runnerVars, controlVars, besidesListing>>

InitListing ==
  /\ NoRunner
  /\ resp = NoResp
  /\ workers \in WorkerLists
  /\ ControlInit
  /\ NoListing
  /\ IdleBesidesListing

NextListing == ListBegin \/ FetchStart \/ FetchDone \/ ListReturn

SpecListing == InitListing /\ [][NextListing]_vars

\* the descriptors the workers 1..n that answered successfully sent, in list order
RECURSIVE Answered(_)
Answered(n) ==
  IF n = 0 THEN << >>
  ELSE Answered(n - 1) \o
       (IF listing.reply[n].ok
        THEN [k \in 1..Len(listing.reply[n].body) |->
                [worker |-> workers[n].name, id |-> listing.reply[n].body[k]]]
        ELSE << >>)

\* C24: GET /sessions answers 200 with exactly the sessions of the workers
\* that answered successfully, each labelled with its worker's name, whatever
\* the order in which the replies arrived; a worker whose request failed
\* contributes nothing and neither fails nor shortens the answer.  While the
\* request runs, no more tasks than the semaphore allows hold a request.
C24_ListsAnsweringWorkers ==
  /\ listing.pc = "gather" => Cardinality(Fetching) <= listing.size
  /\ listing.pc = "done" =>
       /\ resp.op = "list_sessions" /\ resp.status = 200
       /\ resp.result = listing.result
       /\ listing.result = Answered(Len(workers))

\* the second worker replied first, the first worker's request failed, and
\* the answer holds the second worker's two sessions under its name
C24_Witness ==
  /\ listing.pc = "done"
  /\ Len(workers) = 2 /\ workers[1].name = "a" /\ workers[2].name = "b"
  /\ listing.order = <<2, 1>>
  /\ ~listing.reply[1].ok
  /\ listing.result = <<[worker |-> "b", id |-> "s2"], [worker |-> "b", id |-> "s1"]>>

\* both workers answered, the slow first one last, and the answer is in list order
C24_WitnessBoth ==
  /\ listing.pc = "done"
  /\ Len(workers) = 2
  /\ listing.order = <<2, 1>>
  /\ listing.result = <<[worker |-> "a", id |-> "s1"], [worker |-> "b", id |-> "s2"],
                        [worker |-> "b", id |-> "s1"]>>

\* ---------------------------------------------------------------------------
\* bridge_websocket (shared/websocket_bridge.py): a supervisor and the two
\* forwarder tasks between a client WebSocket and an upstream WebSocket.
\* ---------------------------------------------------------------------------

MaxFrames == 2

WsNormalClosure == 1000

WsInternalError == 1011

\* frame payloads; the empty payload is a frame like any other
Payloads == {"", "x"}

\* message.get("text") / message.get("bytes"): << >> stands for None
ClientMessages ==
  {[type |-> "websocket.receive", text |-> <<p>>, bytes |-> << >>] : p \in Payloads} \cup
  {[type |-> "websocket.receive", text |-> << >>, bytes |-> <<p>>] : p \in Payloads}

\* what iterating the upstream connection yields: str or bytes
UpstreamData == [kind : {"text", "bytes"}, data : Payloads]

\* the frame a client message carries
FrameOf(msg) ==
  IF msg.text # << >> THEN [kind |-> "text", data |-> msg.text[1]]
  ELSE [kind |-> "bytes", data |-> msg.bytes[1]]

\* a test of the text field by truth value, which would let "" fall through
HasTextTruthy(msg) == msg.text # << >> /\ msg.text[1] # ""

\* data = message.get("text"); if data is not None
HasText(msg) == msg.text # << >>

\* data_bytes = message.get("bytes"); if data_bytes is not None
HasBytes(msg) == msg.bytes # << >>

\* what _forward_client_to_upstream passes to upstream.send for msg, if anything
ToUpstream(msg) ==
  IF HasText(msg) THEN <<[kind |-> "text", data |-> msg.text[1]]>>
  ELSE IF HasBytes(msg) THEN <<[kind |-> "bytes", data |-> msg.bytes[1]]>>
  ELSE << >>

\* send_bytes for bytes and bytearray, send_text for the rest
ToClient(d) ==
  IF d.kind = "bytes" THEN [kind |-> "bytes", data |-> d.data]
  ELSE [kind |-> "text", data |-> d.data]

Running(t) == t \in {"run", "send"}

Raised(t) == t \in {"raised_closed", "raised_error"}

\* websocket.close(code) under contextlib.suppress(RuntimeError): the first
\* close goes out to the client, a later one raises RuntimeError and sends nothing
CloseWs(b, code) ==
  [b EXCEPT !.close_calls = Append(@, code),
            !.wire = IF @ = 0 THEN code ELSE @]

\* the code the except clauses of bridge_websocket close with
HandlerCode(exc) == IF exc = "raised_error" THEN WsInternalError ELSE WsNormalClosure

\* bridge_websocket up to asyncio.wait: connect_upstream() succeeds and both
\* forwarders are created, or it raises and the except clauses close the client
BridgeConnect ==
  \E outcome \in {"ok", "raised_closed", "raised_error"} :
    /\ bridge.pc = "idle"
    /\ LET b == [pc |-> "wait", fc |-> "run", fu |-> "run", held_c |-> << >>, held_u |-> << >>,
                 client_in |-> << >>, up_out |-> << >>, up_in |-> << >>, client_out |-> << >>,
                 up |-> "open", close_calls |-> << >>, wire |-> 0, exc |-> "none",
                 cancelled |-> {}, started |-> TRUE]
       IN bridge' = IF outcome = "ok" THEN b
                    ELSE CloseWs([b EXCEPT !.pc = "returned", !.fc = "none", !.fu = "none",
                                           !.up = "none", !.exc = outcome, !.started = FALSE],
                                 HandlerCode(outcome))
    /\ UNCHANGED <<cfg, vnc_pool, resp, runnerVars, controlVars, besidesBridge>>

\* message = await websocket.receive() with a text or bytes frame
FcReceive ==
  \E msg \in ClientMessages :
    /\ bridge.pc = "wait" /\ bridge.fc = "run"
    /\ Len(bridge.client_in) < MaxFrames
    /\ bridge' = [bridge EXCEPT !.client_in = Append(@, FrameOf(msg)),
                                !.held_c = ToUpstream(msg),
                                !.fc = IF ToUpstream(msg) = << >> THEN "run" ELSE "send"]
    /\ UNCHANGED <<cfg, vnc_pool, resp, runnerVars, controlVars, besidesBridge>>

\* await upstream.send(data): done, or ConnectionClosed when upstream is closed
FcSend ==
  /\ bridge.pc = "wait" /\ bridge.fc = "send"
  /\ bridge' = IF bridge.up = "open"
               THEN [bridge EXCEPT !.up_out = @ \o bridge.held_c, !.held_c = << >>, !.fc = "run"]
               ELSE [bridge EXCEPT !.held_c = << >>, !.fc = "raised_closed"]
  /\ UNCHANGED <<cfg, vnc_pool, resp, runnerVars, controlVars, besidesBridge>>

\* a websocket.disconnect message or WebSocketDisconnect: await
\* upstream.close() and leave the loop
FcDisconnect ==
  /\ bridge.pc = "wait" /\ bridge.fc = "run"
  /\ bridge' = [bridge EXCEPT !.fc = "returned",
                              !.up = IF @ = "open" THEN "closed_ok" ELSE @]
  /\ UNCHANGED <<cfg, vnc_pool, resp, runnerVars, controlVars, besidesBridge>>

\* any other exception out of receive() or send()
FcError ==
  /\ bridge.pc = "wait" /\ Running(bridge.fc)
  /\ bridge' = [bridge EXCEPT !.fc = "raised_error", !.held_c = << >>]
  /\ UNCHANGED <<cfg, vnc_pool, resp, runnerVars, controlVars, besidesBridge>>

\* the upstream peer closes the connection, with or without a close handshake
UpstreamCloses ==
  \E how \in {"closed_ok", "closed_error"} :
    /\ bridge.pc = "wait" /\ bridge.up = "open"
    /\ bridge' = [bridge EXCEPT !.up = how]
    /\ UNCHANGED <<cfg, vnc_pool, resp, runnerVars, controlVars, besidesBridge>>

\* async for data in upstream: the next message
FuReceive ==
  \E d \in UpstreamData :
    /\ bridge.pc = "wait" /\ bridge.fu = "run" /\ bridge.up = "open"
    /\ Len(bridge.up_in) < MaxFrames
    /\ bridge' = [bridge EXCEPT !.up_in = Append(@, d), !.held_u = <<ToClient(d)>>,
                                !.fu = "send"]
    /\ UNCHANGED <<cfg, vnc_pool, resp, runnerVars, controlVars, besidesBridge>>

\* await websocket.send_bytes(data) / send_text(data)
FuSend ==
  /\ bridge.pc = "wait" /\ bridge.fu = "send"
  /\ bridge' = [bridge EXCEPT !.client_out = @ \o bridge.held_u, !.held_u = << >>, !.fu = "run"]
  /\ UNCHANGED <<cfg, vnc_pool, resp, runnerVars, controlVars, besidesBridge>>

\* the iteration ends: quietly on ConnectionClosedOK, with ConnectionClosedError
\* otherwise; the finally clause closes the client WebSocket
FuClosed ==
  /\ bridge.pc = "wait" /\ bridge.fu = "run" /\ bridge.up # "open"
  /\ bridge' = CloseWs([bridge EXCEPT !.fu = IF bridge.up = "closed_ok" THEN "returned"
                                             ELSE "raised_closed"],
                       WsNormalClosure)
  /\ UNCHANGED <<cfg, vnc_pool, resp, runnerVars, controlVars, besidesBridge>>

\* any other exception out of the iteration or the send; the finally clause
\* closes the client WebSocket
FuError ==
  /\ bridge.pc = "wait" /\ Running(bridge.fu)
  /\ bridge' = CloseWs([bridge EXCEPT !.fu = "raised_error", !.held_u = << >>],
                       WsNormalClosure)
  /\ UNCHANGED <<cfg, vnc_pool, resp, runnerVars, controlVars, besidesBridge>>

\* asyncio.wait(..., return_when=FIRST_EXCEPTION) returns when a task has
\* raised or when every task is done
WaitOver(b) ==
  \/ Raised(b.fc) \/ Raised(b.fu)
  \/ ~Running(b.fc) /\ ~Running(b.fu)

\* the exceptions task.result() can raise for the done tasks
DoneExceptions(b) == {t \in {b.fc, b.fu} : Raised(t)}

\* the rest of bridge_websocket: cancel what is pending (a cancelled upstream
\* forwarder still runs its finally clause), gather it, re-raise the exception
\* of a done task, leave the upstream context, and close the client WebSocket
\* in the except clause that matches
BridgeReturn ==
  /\ bridge.pc = "wait" /\ WaitOver(bridge)
  /\ \E exc \in IF DoneExceptions(bridge) = {} THEN {"none"} ELSE DoneExceptions(bridge) :
       LET pending == {t \in {"fc", "fu"} : Running(bridge[t])}
           b1 == [bridge EXCEPT !.pc = "returned",
                                !.fc = IF "fc" \in pending THEN "cancelled" ELSE @,
                                !.fu = IF "fu" \in pending THEN "cancelled" ELSE @,
                                !.held_c = << >>, !.held_u = << >>,
                                !.up = IF @ = "open" THEN "closed_ok" ELSE @,
                                !.cancelled = pending, !.exc = exc]
           b2 == IF "fu" \in pending THEN CloseWs(b1, WsNormalClosure) ELSE b1
       IN bridge' = IF exc = "none" THEN b2 ELSE CloseWs(b2, HandlerCode(exc))
  /\ UNCHANGED <<cfg, vnc_pool, resp, runnerVars, controlVars, besidesBridge>>

InitBridge ==
  /\ NoRunner
  /\ resp = NoResp
  /\ NoWorkers
  /\ ControlInit
  /\ NoBridge
  /\ IdleBesidesBridge

NextBridge ==
  \/ BridgeConnect
  \/ FcReceive \/ FcSend \/ FcDisconnect \/ FcError
  \/ UpstreamCloses
  \/ FuReceive \/ FuSend \/ FuClosed \/ FuError
  \/ BridgeReturn

SpecBridge == InitBridge /\ [][NextBridge]_vars

\* C25: bridge_websocket runs both forwarders and, as soon as either one has
\* terminated, by returning or by raising, stops waiting, cancels the other
\* and returns: whenever a forwarder has terminated while the supervisor is
\* in its wait, the wait is over, and a forwarder still running when the
\* supervisor proceeds is cancelled.
C25_FirstTerminationEndsWait ==
  /\ (bridge.pc = "wait" /\ (~Running(bridge.fc) \/ ~Running(bridge.fu))) => WaitOver(bridge)
  /\ (bridge.pc = "returned" /\ bridge.started) =>
       ~Running(bridge.fc) /\ ~Running(bridge.fu)

\* the upstream forwarder has returned after a normal upstream close and has
\* closed the client WebSocket, the client forwarder still sits in receive(),
\* and the supervisor is still in asyncio.wait
C25_KeepsWaiting ==
  /\ bridge.pc = "wait"
  /\ bridge.fu = "returned" /\ bridge.wire = WsNormalClosure
  /\ bridge.fc = "run"
  /\ ~WaitOver(bridge)

\* C26: when a forwarder fails with an unexpected error the client side is
\* closed with code 1011, and when either side closes normally it is closed
\* quietly with the default code: once bridge_websocket has returned, the
\* close the client received carries 1011 if the error handled was an
\* unexpected one and the default code 1000 otherwise.
C26_ErrorClosesWith1011 ==
  (bridge.pc = "returned" /\ bridge.started) =>
    /\ bridge.exc = "raised_error" => bridge.wire = WsInternalError
    /\ bridge.exc # "raised_error" => bridge.wire = WsNormalClosure

\* the client forwarder raised an unexpected error, the cancelled upstream
\* forwarder closed the client WebSocket with the default code in its finally
\* clause, and the handler's close(code=1011) came second and sent nothing
C26_ErrorClosedNormally ==
  /\ bridge.pc = "returned" /\ bridge.exc = "raised_error"
  /\ bridge.fc = "raised_error" /\ bridge.fu = "cancelled"
  /\ bridge.close_calls = <<WsNormalClosure, WsInternalError>>
  /\ bridge.wire = WsNormalClosure

\* what the code does guarantee for closes: a normal end closes with the
\* default code, 1011 goes out only when connect_upstream() itself failed
\* unexpectedly, and the handler attempts 1011 after every unexpected error
C26_CloseCodes ==
  bridge.pc = "returned" =>
    /\ bridge.wire = WsInternalError <=> (~bridge.started /\ bridge.exc = "raised_error")
    /\ bridge.wire # WsInternalError => bridge.wire = WsNormalClosure
    /\ bridge.exc = "raised_error" => Last(bridge.close_calls) = WsInternalError

Prefix(s, t) == Len(s) <= Len(t) /\ SubSeq(t, 1, Len(s)) = s

\* C27: frames are forwarded verbatim and in order in both directions: at
\* every moment what has been sent upstream is a prefix of what has been
\* received from the client, and what has been sent to the client is a
\* prefix of what has been received from upstream, text as text and bytes as
\* bytes; a frame is missing from the end only while it is being sent or
\* because the forwarder ended.
C27_ForwardedPrefix ==
  bridge.pc \in {"wait", "returned"} /\ bridge.started =>
    /\ Prefix(bridge.up_out, bridge.client_in)
    /\ Prefix(bridge.client_out, bridge.up_in)
    /\ (bridge.fc = "run" /\ bridge.pc = "wait") => bridge.up_out = bridge.client_in
    /\ (bridge.fu = "run" /\ bridge.pc = "wait") => bridge.client_out = bridge.up_in

\* an empty text frame and a bytes frame went upstream in that order while a
\* bytes frame and a text frame went to the client
C27_Witness ==
  /\ bridge.pc = "wait"
  /\ bridge.up_out = <<[kind |-> "text", data |-> ""], [kind |-> "bytes", data |-> "x"]>>
  /\ bridge.client_in = bridge.up_out
  /\ bridge.client_out = <<[kind |-> "bytes", data |-> ""], [kind |-> "text", data |-> "x"]>>
  /\ bridge.up_in = bridge.client_out

\* a frame received from the client was lost when its send found upstream closed
C27_WitnessLost ==
  /\ bridge.pc = "returned"
  /\ Len(bridge.client_in) = 2 /\ Len(bridge.up_out) = 1
  /\ bridge.fc = "raised_closed"

\* ---------------------------------------------------------------------------
\* The VNC gateway (worker-vnc/camofleet_worker_vnc/app.py): GatewayState's
\* connection accounting, the /websockify endpoint around it, the tasks of
\* _proxy_websocket as far as they decide how a connection ends, and
\* begin_shutdown.  Every `async with self._lock` body is free of awaits, so
\* the lock is never contended and acquire() and release() are single steps.
\* ---------------------------------------------------------------------------

MaxConns == 2

MaxConcurrent == 2

WsPolicyViolation == 1008

WsTryAgainLater == 1013

Conns == 1..MaxConns

NewConn ==
  [st |-> "new", client |-> "none", server |-> "none", idle |-> "none",
   exc |-> "none", eof |-> FALSE, gone |-> FALSE, wire |-> << >>,
   acquired |-> 0, released |-> 0]

\* websocket.close(code=code, reason=reason): only the first close is sent
CloseConn(c, code, reason) ==
  [c EXCEPT !.wire = IF @ = << >> THEN <<code, reason>> ELSE @]

\* an acquire() that would test the limit before the closing flag
AdmissionLimitFirst(g) ==
  IF g.active >= g.max THEN "session_limit"
  ELSE IF g.closing THEN "shutting_down"
  ELSE "ok"

\* an acquire() that would not test the limit
AdmissionNoLimit(g) == IF g.closing THEN "shutting_down" ELSE "ok"

\* GatewayState.acquire: ShutdownInProgressError, CapacityExceededError or success
Admission(g) ==
  IF g.closing THEN "shutting_down"
  ELSE IF g.active >= g.max THEN "session_limit"
  ELSE "ok"

\* GatewayState.release
Released(g) ==
  LET n == IF g.active > 0 THEN g.active - 1 ELSE g.active
  IN [g EXCEPT !.active = n, !.drained = (n = 0) \/ @]

\* the endpoint's exits before acquire(): no identifier, or an unknown one
ConnRefuse ==
  \E c \in Conns, reason \in {"missing_id", "unknown_id"} :
    /\ gateway.pc = "up" /\ gateway.conns[c].st = "new"
    /\ gateway' = [gateway EXCEPT !.conns[c] =
                     CloseConn([@ EXCEPT !.st = "refused"], WsPolicyViolation, reason)]
    /\ UNCHANGED <<cfg, vnc_pool, resp, runnerVars, controlVars, besidesGateway>>

\* await state.acquire() and the two except clauses that close with 1013
ConnAcquire ==
  \E c \in Conns :
    /\ gateway.pc = "up" /\ gateway.conns[c].st = "new"
    /\ gateway' =
         IF Admission(gateway) = "ok"
         THEN [gateway EXCEPT !.active = @ + 1, !.drained = FALSE,
                              !.conns[c] = [@ EXCEPT !.st = "connecting", !.acquired = 1]]
         ELSE [gateway EXCEPT !.conns[c] =
                 CloseConn([@ EXCEPT !.st = "rejected"], WsTryAgainLater, Admission(gateway))]
    /\ UNCHANGED <<cfg, vnc_pool, resp, runnerVars, controlVars, besidesGateway>>

\* asyncio.open_connection fails or times out: the endpoint closes with
\* 1011 upstream_unreachable
ConnectFailed ==
  \E c \in Conns :
    /\ gateway.pc = "up" /\ gateway.conns[c].st = "connecting"
    /\ gateway' = [gateway EXCEPT !.conns[c] =
                     CloseConn([@ EXCEPT !.st = "finally", !.exc = "oserror"],
                               WsInternalError, "upstream_unreachable")]
    /\ UNCHANGED <<cfg, vnc_pool, resp, runnerVars, controlVars, besidesGateway>>

\* the TCP connection is up, the WebSocket is accepted, the tasks are created
ConnectOk ==
  \E c \in Conns :
    /\ gateway.pc = "up" /\ gateway.conns[c].st = "connecting"
    /\ gateway' = [gateway EXCEPT !.conns[c] =
                     [@ EXCEPT !.st = "running", !.client = "run", !.server = "run",
                               !.idle = "run"]]
    /\ UNCHANGED <<cfg, vnc_pool, resp, runnerVars, controlVars, besidesGateway>>

\* client_to_tcp: websocket.disconnect ends the loop and closes the writer
ClientLeaves ==
  \E c \in Conns :
    /\ gateway.pc = "up" /\ gateway.conns[c].st = "running" /\ gateway.conns[c].client = "run"
    /\ gateway' = [gateway EXCEPT !.conns[c] = [@ EXCEPT !.client = "returned", !.gone = TRUE]]
    /\ UNCHANGED <<cfg, vnc_pool, resp, runnerVars, controlVars, besidesGateway>>

\* client_to_tcp: a receive or a drain timed out, or something else was raised
ClientRaises ==
  \E c \in Conns, e \in {"raised_idle", "raised_error"} :
    /\ gateway.pc = "up" /\ gateway.conns[c].st = "running" /\ gateway.conns[c].client = "run"
    /\ gateway' = [gateway EXCEPT !.conns[c] = [@ EXCEPT !.client = e]]
    /\ UNCHANGED <<cfg, vnc_pool, resp, runnerVars, controlVars, besidesGateway>>

\* tcp_to_client: reader.read returned b"", because the VNC server closed the
\* stream or because client_to_tcp closed the writer; UpstreamClosedError,
\* and the finally clause closes with 1011 upstream_closed
ServerEof ==
  \E c \in Conns, upstream_eof \in BOOLEAN :
    /\ gateway.pc = "up" /\ gateway.conns[c].st = "running" /\ gateway.conns[c].server = "run"
    /\ ~upstream_eof => gateway.conns[c].client # "run"
    /\ gateway' = [gateway EXCEPT !.conns[c] =
                     CloseConn([@ EXCEPT !.server = "raised_eof", !.eof = upstream_eof],
                               WsInternalError, "upstream_closed")]
    /\ UNCHANGED <<cfg, vnc_pool, resp, runnerVars, controlVars, besidesGateway>>

\* tcp_to_client: a read or a send timed out, or something else was raised;
\* the finally clause closes with 1011 upstream_closed
ServerRaises ==
  \E c \in Conns, e \in {"raised_idle", "raised_error"} :
    /\ gateway.pc = "up" /\ gateway.conns[c].st = "running" /\ gateway.conns[c].server = "run"
    /\ gateway' = [gateway EXCEPT !.conns[c] =
                     CloseConn([@ EXCEPT !.server = e], WsInternalError, "upstream_closed")]
    /\ UNCHANGED <<cfg, vnc_pool, resp, runnerVars, controlVars, besidesGateway>>

\* idle_watchdog: no activity since its last look
WatchdogFires ==
  \E c \in Conns :
    /\ gateway.pc = "up" /\ gateway.conns[c].st = "running" /\ gateway.conns[c].idle = "run"
    /\ gateway' = [gateway EXCEPT !.conns[c] = [@ EXCEPT !.idle = "raised_idle"]]
    /\ UNCHANGED <<cfg, vnc_pool, resp, runnerVars, controlVars, besidesGateway>>

TaskRaised(t) == t \in {"raised_idle", "raised_eof", "raised_error"}

\* the exceptions task.result() can raise for the done tasks of connection c
ProxyExceptions(c) == {t \in {c.client, c.server, c.idle} : TaskRaised(t)}

\* every task of c that still runs is cancelled; the cancelled tcp_to_client
\* runs its finally clause
TasksCancelled(c) ==
  LET d == [c EXCEPT !.client = IF @ = "run" THEN "cancelled" ELSE @,
                     !.server = IF @ = "run" THEN "cancelled" ELSE @,
                     !.idle = IF @ = "run" THEN "cancelled" ELSE @]
  IN IF c.server = "run" THEN CloseConn(d, WsInternalError, "upstream_closed") ELSE d

\* _proxy_websocket after asyncio.wait(FIRST_EXCEPTION): cancel and gather
\* what is pending, re-raise; UpstreamClosedError is swallowed,
\* IdleTimeoutError closes with 1011 idle_timeout and is re-raised to the
\* endpoint, which swallows it; anything else propagates
ProxyReturn ==
  \E c \in Conns :
    /\ gateway.pc = "up" /\ gateway.conns[c].st = "running"
    /\ ProxyExceptions(gateway.conns[c]) # {}
    /\ \E e \in ProxyExceptions(gateway.conns[c]) :
         LET d == [TasksCancelled(gateway.conns[c]) EXCEPT !.st = "finally", !.exc = e]
         IN gateway' = [gateway EXCEPT !.conns[c] =
                          IF e = "raised_idle"
                          THEN CloseConn(d, WsInternalError, "idle_timeout")
                          ELSE d]
    /\ UNCHANGED <<cfg, vnc_pool, resp, runnerVars, controlVars, besidesGateway>>

\* the endpoint's task is cancelled while it waits in _proxy_websocket: the
\* finally clause there cancels the tasks, the endpoint swallows CancelledError
ProxyCancelled ==
  \E c \in Conns :
    /\ gateway.pc = "up" /\ gateway.conns[c].st = "running"
    /\ gateway' = [gateway EXCEPT !.conns[c] =
                     [TasksCancelled(gateway.conns[c]) EXCEPT !.st = "finally",
                                                              !.exc = "cancelled"]]
    /\ UNCHANGED <<cfg, vnc_pool, resp, runnerVars, controlVars, besidesGateway>>

\* finally: await state.release()
ConnRelease ==
  \E c \in Conns :
    /\ gateway.pc = "up" /\ gateway.conns[c].st = "finally"
    /\ gateway' = [Released(gateway) EXCEPT !.conns[c] =
                     [@ EXCEPT !.st = "done", !.released = @ + 1]]
    /\ UNCHANGED <<cfg, vnc_pool, resp, runnerVars, controlVars, besidesGateway>>

\* begin_shutdown up to the wait
ShutdownBegin ==
  /\ gateway.pc = "up" /\ gateway.shutdown = "none"
  /\ gateway' = [gateway EXCEPT !.closing = TRUE, !.shutdown = "waiting"]
  /\ UNCHANGED <<cfg, vnc_pool, resp, runnerVars, controlVars, besidesGateway>>

\* drained.wait() returns: the event is set
ShutdownDrained ==
  /\ gateway.pc = "up" /\ gateway.shutdown = "waiting" /\ gateway.drained
  /\ gateway' = [gateway EXCEPT !.shutdown = "drained"]
  /\ UNCHANGED <<cfg, vnc_pool, resp, runnerVars, controlVars, besidesGateway>>

\* shutdown_grace_ms elapses first: asyncio.TimeoutError, the warning
ShutdownTimeout ==
  /\ gateway.pc = "up" /\ gateway.shutdown = "waiting" /\ ~gateway.drained
  /\ gateway' = [gateway EXCEPT !.shutdown = "timeout"]
  /\ UNCHANGED <<cfg, vnc_pool, resp, runnerVars, controlVars, besidesGateway>>

\* GatewayState.__init__ with max_concurrent_sessions >= 1
InitGateway ==
  /\ NoRunner
  /\ resp = NoResp
  /\ NoWorkers
  /\ ControlInit
  /\ IdleBesidesGateway
  /\ \E max \in 1..MaxConcurrent :
       gateway = [pc |-> "up", max |-> max, active |-> 0, drained |-> TRUE,
                  closing |-> FALSE, shutdown |-> "none",
                  conns |-> [c \in Conns |-> NewConn]]

NextGateway ==
  \/ ConnRefuse \/ ConnAcquire \/ ConnectFailed \/ ConnectOk
  \/ ClientLeaves \/ ClientRaises \/ ServerEof \/ ServerRaises \/ WatchdogFires
  \/ ProxyReturn \/ ProxyCancelled \/ ConnRelease
  \/ ShutdownBegin \/ ShutdownDrained \/ ShutdownTimeout

SpecGateway == InitGateway /\ [][NextGateway]_vars

\* the event loop runs the waiting begin_shutdown when the event is set or
\* when its timer fires
SpecGatewayLive == SpecGateway /\ WF_vars(ShutdownDrained \/ ShutdownTimeout)

\* the connections that have acquired and not yet released
Holding == {c \in Conns : gateway.conns[c].acquired = 1 /\ gateway.conns[c].released = 0}

\* connection c leaves the "new" state in this step by way of acquire()
Admitting(c) ==
  /\ gateway.conns[c].st = "new"
  /\ gateway'.conns[c].st \in {"connecting", "rejected"}

\* C28: the active count of the VNC gateway equals the number of connections
\* that have acquired and not yet released, is never negative and never
\* exceeds max_concurrent_sessions; a connection arriving at the limit is
\* closed with 1013 session_limit and leaves the count unchanged; and every
\* connection that acquired releases exactly once, whatever way it ends.
C28_CountMatchesHolders ==
  /\ [](/\ gateway.active = Cardinality(Holding)
        /\ gateway.active >= 0 /\ gateway.active <= gateway.max
        /\ gateway.drained <=> gateway.active = 0
        /\ \A c \in Conns :
             LET k == gateway.conns[c] IN
             /\ k.released <= k.acquired
             /\ k.st \in {"connecting", "running", "finally"} =>
                  k.acquired = 1 /\ k.released = 0
             /\ k.st = "done" => k.acquired = 1 /\ k.released = 1
             /\ k.st \in {"new", "refused", "rejected"} => k.acquired = 0)
  /\ [][\A c \in Conns :
          (Admitting(c) /\ ~gateway.closing /\ gateway.active >= gateway.max) =>
            /\ gateway'.conns[c].st = "rejected"
            /\ gateway'.conns[c].wire = <<WsTryAgainLater, "session_limit">>
            /\ gateway'.active = gateway.active]_vars

\* with a limit of one, one connection ended by an idle timeout and released,
\* the other was turned away with 1013 session_limit while the first held
\* the only place
C28_Witness ==
  /\ gateway.max = 1 /\ gateway.active = 0 /\ ~gateway.closing
  /\ \E c, d \in Conns :
       /\ gateway.conns[c].st = "done" /\ gateway.conns[c].exc = "raised_idle"
       /\ gateway.conns[d].st = "rejected"
       /\ gateway.conns[d].wire = <<WsTryAgainLater, "session_limit">>

\* C29: once begin_shutdown has set the closing flag it is never cleared and
\* no new connection acquires: each is closed with 1013 shutting_down, also
\* when the gateway is at its limit; begin_shutdown returns when the active
\* count has reached zero or when shutdown_grace_ms has elapsed, and it
\* always returns.
C29_ShutdownAdmitsNone ==
  /\ [][gateway.closing => gateway'.closing]_vars
  /\ [][\A c \in Conns :
          (Admitting(c) /\ gateway.closing) =>
            /\ gateway'.conns[c].st = "rejected"
            /\ gateway'.conns[c].wire = <<WsTryAgainLater, "shutting_down">>
            /\ gateway'.active = gateway.active]_vars
  /\ [](gateway.closing <=> gateway.shutdown # "none")
  /\ [](gateway.shutdown = "drained" => gateway.active = 0)
  /\ [][(gateway.shutdown = "waiting" /\ gateway'.shutdown = "timeout") =>
          gateway.active > 0]_vars
  /\ (gateway.closing ~> gateway.shutdown \in {"drained", "timeout"})

\* the gateway is closing with its only place still taken, a connection that
\* arrived then was closed with 1013 shutting_down, and begin_shutdown has
\* returned on the timeout
C29_Witness ==
  /\ gateway.max = 1 /\ gateway.active = 1 /\ gateway.closing
  /\ gateway.shutdown = "timeout"
  /\ \E c \in Conns :
       /\ gateway.conns[c].st = "rejected"
       /\ gateway.conns[c].wire = <<WsTryAgainLater, "shutting_down">>

\* begin_shutdown returned because the last connection released
C29_WitnessDrained ==
  /\ gateway.shutdown = "drained"
  /\ \E c \in Conns : gateway.conns[c].st = "done"

\* C30: a connection that ends on an idle timeout is closed with 1011 and
\* the reason idle_timeout, and the reason upstream_closed is sent only when
\* the upstream TCP stream reached EOF.
C30_CloseReasons ==
  \A c \in Conns :
    LET k == gateway.conns[c] IN
    /\ (k.st \in {"finally", "done"} /\ k.exc = "raised_idle") =>
         k.wire = <<WsInternalError, "idle_timeout">>
    /\ k.wire = <<WsInternalError, "upstream_closed">> => k.eof

\* the watchdog found the connection idle while the client and the VNC
\* server were both still connected, and the close the client received says
\* upstream_closed
C30_IdleReportedAsUpstreamClosed ==
  \E c \in Conns :
    LET k == gateway.conns[c] IN
    /\ k.st = "done" /\ k.exc = "raised_idle" /\ k.idle = "raised_idle"
    /\ k.client = "cancelled" /\ k.server = "cancelled"
    /\ ~k.eof /\ ~k.gone
    /\ k.wire = <<WsInternalError, "upstream_closed">>

\* what the code does guarantee: 1011 idle_timeout is never on the wire once
\* the tasks have run, and upstream EOF is reported as upstream_closed
C30_AlwaysUpstreamClosed ==
  \A c \in Conns :
    LET k == gateway.conns[c] IN
    (k.st \in {"finally", "done"} /\ k.exc # "oserror") =>
      k.wire = <<WsInternalError, "upstream_closed">>

-----------------------------------------------------------------------------
(* vnc-gateway: the target port of a request (camofleet_vnc_gateway/main.py) *)

\* GatewaySettings.min_port and GatewaySettings.max_port
MinPort == 6900
MaxPort == 6999

\* the texts a target_port parameter or cookie carries in the model
PortTexts == {"", "6900", "06900", "6999", "7000", "x"}

\* text.isdigit(), which for the texts of the model is: int(text) succeeds
IsInt(text) == text \in {"5", "05", "80", "443", "6080", "6900", "06900", "6999", "7000"}

\* int(text)
IntOf(text) ==
  CASE text = "5" -> 5
    [] text = "05" -> 5
    [] text = "80" -> 80
    [] text = "443" -> 443
    [] text = "6080" -> 6080
    [] text = "6900" -> 6900
    [] text = "06900" -> 6900
    [] text = "6999" -> 6999
    [] text = "7000" -> 7000

\* str(n) of the numbers of the model
StrOf(port) ==
  CASE port = 5 -> "5"
    [] port = 80 -> "80"
    [] port = 443 -> "443"
    [] port = 6080 -> "6080"
    [] port = 6900 -> "6900"
    [] port = 6999 -> "6999"

\* an optional text is << >> (Python None) or <<text>>; `if value:` holds of
\* a text that is there and is not empty
Truthy(value) == value # << >> /\ value[1] # ""

OptionalTexts == {<< >>} \cup {<<t>> : t \in PortTexts}

\* the target_port values of the query of a Referer header, in order; << >>
\* stands for a request without the header
Referers == {<< >>, << << >> >>, << <<"6999">> >>, << <<"", "6999">> >>,
             << <<"x", "6900">> >>}

\* _extract_port_from_referer: parse_qs drops blank values and the first of
\* the others is the port
ExtractPortFromReferer(referer) ==
  IF referer = << >> THEN << >>
  ELSE LET values == SelectSeq(referer[1], LAMBDA t : t # "")
       IN IF values # << >> THEN <<values[1]>> ELSE << >>

\* cookie before query parameter and Referer
SelectCookieFirst(query_value, referer, cookie) ==
  IF Truthy(cookie) THEN [raw |-> cookie, source |-> "cookie"]
  ELSE IF Truthy(query_value) THEN [raw |-> query_value, source |-> "query"]
  ELSE IF Truthy(ExtractPortFromReferer(referer))
         THEN [raw |-> ExtractPortFromReferer(referer), source |-> "referer"]
  ELSE [raw |-> << >>, source |-> "none"]

\* _select_target_port; cookie is the vnc-target-port entry of the cookies
SelectTargetPort(query_value, referer, cookie) ==
  IF Truthy(query_value) THEN [raw |-> query_value, source |-> "query"]
  ELSE IF Truthy(ExtractPortFromReferer(referer))
         THEN [raw |-> ExtractPortFromReferer(referer), source |-> "referer"]
  ELSE IF Truthy(cookie) THEN [raw |-> cookie, source |-> "cookie"]
  ELSE [raw |-> << >>, source |-> "none"]

\* GatewaySettings.validate_port: 0 stands for the ValueError
ValidatePort(raw) ==
  IF raw = << >> THEN 0
  ELSE IF ~IsInt(raw[1]) THEN 0
  ELSE IF IntOf(raw[1]) < MinPort \/ IntOf(raw[1]) > MaxPort THEN 0
  ELSE IntOf(raw[1])

\* _proxy_http for one request of the browser, which sends the cookie it
\* holds; upstream_ok is false when the request to the runner raises
\* httpx.HTTPError
ProxyHttp(query_value, referer, upstream_ok) ==
  LET chosen == SelectTargetPort(query_value, referer, router.jar)
      port == ValidatePort(chosen.raw)
      request == [query |-> query_value, referer |-> referer, cookie |-> router.jar,
                  source |-> chosen.source]
      response ==
        IF port = 0 THEN request @@ [status |-> 400, port |-> 0, set_cookie |-> << >>]
        ELSE IF ~upstream_ok
          THEN request @@ [status |-> 502, port |-> port, set_cookie |-> << >>]
        ELSE request @@ [status |-> 200, port |-> port,
                         set_cookie |-> IF chosen.source = "query"
                                        THEN <<StrOf(port)>> ELSE << >>]
  IN router' = [pc |-> "up",
                jar |-> IF response.set_cookie # << >> THEN response.set_cookie
                        ELSE router.jar,
                served |-> IF router.served = << >> THEN <<response>>
                           ELSE <<router.served[Len(router.served)], response>>]

\* a request that the gateway rejects or cannot relay
RequestFails ==
  /\ router.pc = "up"
  /\ \E query_value \in OptionalTexts, referer \in Referers, upstream_ok \in BOOLEAN :
       /\ ValidatePort(SelectTargetPort(query_value, referer, router.jar).raw) = 0
            \/ ~upstream_ok
       /\ ProxyHttp(query_value, referer, upstream_ok)
  /\ UNCHANGED <<cfg, vnc_pool, resp, runnerVars, controlVars, besidesRouter>>

\* a request whose upstream response the gateway relays
RequestRelayed ==
  /\ router.pc = "up"
  /\ \E query_value \in OptionalTexts, referer \in Referers :
       /\ ValidatePort(SelectTargetPort(query_value, referer, router.jar).raw) # 0
       /\ ProxyHttp(query_value, referer, TRUE)
  /\ UNCHANGED <<cfg, vnc_pool, resp, runnerVars, controlVars, besidesRouter>>

\* a browser that holds no cookie of the gateway
InitRouter ==
  /\ NoRunner
  /\ resp = NoResp
  /\ NoWorkers
  /\ ControlInit
  /\ IdleBesidesRouter
  /\ router = [pc |-> "up", jar |-> << >>, served |-> << >>]

NextRouter == RequestFails \/ RequestRelayed

SpecRouter == InitRouter /\ [][NextRouter]_vars

\* the last response and the one before it
LastServed == router.served[Len(router.served)]

\* C31 as stated: every response sets the cookie exactly when the port came
\* from the query parameter
C31_CookieExactlyOnQuery ==
  (router.pc = "up" /\ router.served # << >>) =>
    (LastServed.set_cookie # << >> <=> LastServed.source = "query")

\* C31: the port is the query parameter if it is there and not empty, else
\* the Referer's, else the cookie's, else the request is rejected; a relayed
\* response sets the cookie exactly when the port came from the query
\* parameter, a 400 or 502 response sets none; and after a relayed request
\* with ?target_port=P a request with no query parameter and no Referer is
\* sent to P
C31_TargetPortSticky ==
  (router.pc = "up" /\ router.served # << >>) =>
    LET r == LastServed
        raw == IF Truthy(r.query) THEN r.query
               ELSE IF Truthy(ExtractPortFromReferer(r.referer))
                      THEN ExtractPortFromReferer(r.referer)
               ELSE IF Truthy(r.cookie) THEN r.cookie ELSE << >>
    IN /\ r.source = "query" <=> Truthy(r.query)
       /\ r.source = "referer" <=>
            (~Truthy(r.query) /\ Truthy(ExtractPortFromReferer(r.referer)))
       /\ r.source = "none" <=> raw = << >>
       /\ r.source = "none" => r.status = 400
       /\ r.status # 400 => (IsInt(raw[1]) /\ r.port = IntOf(raw[1]))
       /\ r.status = 200 => (r.set_cookie # << >> <=> r.source = "query")
       /\ r.status # 200 => r.set_cookie = << >>
       /\ r.set_cookie # << >> => IntOf(r.set_cookie[1]) = r.port
       /\ (/\ Len(router.served) = 2
           /\ router.served[1].status = 200
           /\ router.served[1].source = "query"
           /\ r.query = << >>
           /\ r.referer = << >>) =>
            (r.status \in {200, 502} /\ r.port = router.served[1].port
             /\ r.source = "cookie")

C31_Witness ==
  /\ router.pc = "up"
  /\ Len(router.served) = 2
  /\ router.served[1].status = 200
  /\ router.served[1].query = <<"06900">>
  /\ router.served[1].set_cookie = <<"6900">>
  /\ router.served[2].query = << >>
  /\ router.served[2].referer = << >>
  /\ router.served[2].status = 200
  /\ router.served[2].port = 6900
  /\ router.served[2].set_cookie = << >>

-----------------------------------------------------------------------------
(* Control plane: the VNC URL rewriter (camofleet_control/main.py) *)

\* A text is a sequence of atoms (strings) and stands for their
\* concatenation; the placeholders of a template are atoms of their own.
\* A URL is [scheme, host, port, path, query]: host is a text, port a number
\* (0 for None), path a sequence of segments that are texts, query a sequence
\* of [key, value] with a text as value.  A template has the same fields with
\* an atom in the port slot ("" for none).  The URLs of the model carry no
\* userinfo, params or fragment.
Join(text) ==
  LET F[i \in 0..Len(text)] == IF i = 0 THEN "" ELSE F[i - 1] \o text[i]
  IN F[Len(text)]

\* the absent URL or template (None, or a key the payload does not have)
NoUrl == [scheme |-> "", host |-> << >>, port |-> 0, path |-> << >>, query |-> << >>]

NoTemplate == [scheme |-> "", host |-> << >>, port |-> "", path |-> << >>, query |-> << >>]

\* the URL as one string, as urlunparse writes it
UrlText(url) ==
  LET path[i \in 0..Len(url.path)] ==
        IF i = 0 THEN "" ELSE path[i - 1] \o "/" \o Join(url.path[i])
      query[i \in 0..Len(url.query)] ==
        IF i = 0 THEN ""
        ELSE query[i - 1] \o (IF i = 1 THEN "?" ELSE "&") \o url.query[i].key
               \o "=" \o Join(url.query[i].value)
  IN IF url = NoUrl THEN ""
     ELSE url.scheme \o "://" \o Join(url.host)
            \o (IF url.port # 0 THEN ":" \o StrOf(url.port) ELSE "")
            \o path[Len(url.path)] \o query[Len(url.query)]

\* _default_port_for_scheme
DefaultPortForScheme(scheme) ==
  IF scheme \in {"http", "ws"} THEN 80
  ELSE IF scheme \in {"https", "wss"} THEN 443
  ELSE 0

\* the text is one run of digits
IsDigits(text) == Len(text) = 1 /\ IsInt(text[1])

\* parse_qs(query).get(key): the non-blank values of the key, in order
QueryValues(query, key) ==
  LET F[i \in 0..Len(query)] ==
        IF i = 0 THEN << >>
        ELSE IF query[i].key = key /\ Join(query[i].value) # ""
               THEN Append(F[i - 1], query[i].value)
               ELSE F[i - 1]
  IN F[Len(query)]

\* _extract_vnc_identifier: the first value of token, else of id, when it is
\* all digits; else the number after the first /vnc/ of the path; 0 for None
ExtractVncIdentifier(parsed) ==
  LET FromQuery(key) ==
        /\ QueryValues(parsed.query, key) # << >>
        /\ IsDigits(QueryValues(parsed.query, key)[1])
      Matches == {i \in 1..(Len(parsed.path) - 1) :
                    Join(parsed.path[i]) = "vnc" /\ IsDigits(parsed.path[i + 1])}
  IN IF FromQuery("token") THEN IntOf(QueryValues(parsed.query, "token")[1][1])
     ELSE IF FromQuery("id") THEN IntOf(QueryValues(parsed.query, "id")[1][1])
     ELSE IF Matches # {}
       THEN IntOf(parsed.path[(CHOOSE i \in Matches : \A j \in Matches : i <= j) + 1][1])
     ELSE 0

\* the atoms of a template
TemplateAtoms(template) ==
  {template.host[i] : i \in DOMAIN template.host} \cup {template.port}
    \cup UNION {{template.path[i][j] : j \in DOMAIN template.path[i]} :
                  i \in DOMAIN template.path}
    \cup UNION {{template.query[i].value[j] : j \in DOMAIN template.query[i].value} :
                  i \in DOMAIN template.query}

\* str.replace of the three placeholders in a text of the template
Rendered(text, hostname, effective_port, identifier) ==
  LET Sub(atom) ==
        CASE atom = "{host}" -> hostname
          [] atom = "{port}" -> <<StrOf(effective_port)>>
          [] atom = "{id}" -> <<StrOf(identifier)>>
          [] OTHER -> <<atom>>
      F[i \in 0..Len(text)] == IF i = 0 THEN << >> ELSE F[i - 1] \o Sub(text[i])
  IN F[Len(text)]

\* one round of the loop of apply_vnc_overrides: the value of payload[key]
\* after the override of the key
Override(override_template, original_url) ==
  IF original_url = NoUrl \/ override_template = NoTemplate THEN original_url
  ELSE
    LET port_placeholder_used == "{port}" \in TemplateAtoms(override_template)
        id_placeholder_used == "{id}" \in TemplateAtoms(override_template)
        host_placeholder_used == "{host}" \in TemplateAtoms(override_template)
        session_port == IF original_url.port # 0 THEN original_url.port
                        ELSE DefaultPortForScheme(original_url.scheme)
        identifier == ExtractVncIdentifier(original_url)
        effective_port == IF identifier # 0 THEN identifier ELSE session_port
    IN IF \/ port_placeholder_used /\ effective_port = 0
          \/ host_placeholder_used /\ original_url.host = << >>
          \/ id_placeholder_used /\ identifier = 0
       THEN original_url
       ELSE
         LET R(text) == Rendered(text, original_url.host, effective_port, identifier)
             hostname == R(override_template.host)
             port == IF override_template.port = "" THEN 0
                     ELSE IntOf(R(<<override_template.port>>)[1])
             path == [i \in DOMAIN override_template.path |->
                        R(override_template.path[i])]
             query == [i \in DOMAIN override_template.query |->
                         [key |-> override_template.query[i].key,
                          value |-> R(override_template.query[i].value)]]
             final_port == IF port # 0 THEN port
                           ELSE IF port_placeholder_used THEN session_port
                           ELSE 0
         IN IF override_template.scheme = "" \/ Join(hostname) = "" THEN original_url
            ELSE [scheme |-> override_template.scheme,
                  host |-> hostname,
                  port |-> final_port,
                  path |-> IF path # << >> THEN path ELSE original_url.path,
                  query |-> IF query # << >> THEN query ELSE original_url.query]

\* apply_vnc_overrides
ApplyVncOverrides(worker, payload) ==
  [ws |-> Override(worker.vnc_ws, payload.ws),
   http |-> Override(worker.vnc_http, payload.http)]

PayloadText(payload) == [ws |-> UrlText(payload.ws), http |-> UrlText(payload.http)]

\* the ws URLs a runner or an earlier rewrite supplies
WsUrls ==
  {NoUrl,
   [scheme |-> "ws", host |-> <<"internal">>, port |-> 6900,
    path |-> << <<"websockify">> >>,
    query |-> << [key |-> "token", value |-> <<"6900">>] >>],
   [scheme |-> "ws", host |-> <<"internal">>, port |-> 6900,
    path |-> << <<"websockify">> >>,
    query |-> << [key |-> "token", value |-> <<"05">>] >>],
   [scheme |-> "ws", host |-> <<"internal">>, port |-> 6900,
    path |-> << <<"websockify">> >>, query |-> << >>],
   [scheme |-> "ws", host |-> <<"internal">>, port |-> 0,
    path |-> << <<"vnc">>, <<"5">>, <<"websockify">> >>, query |-> << >>]}

HttpUrls ==
  {NoUrl,
   [scheme |-> "http", host |-> <<"internal">>, port |-> 6080,
    path |-> << <<"vnc.html">> >>,
    query |-> << [key |-> "path", value |-> <<"websockify">>] >>],
   [scheme |-> "http", host |-> <<"internal">>, port |-> 6080,
    path |-> << <<"vnc">>, <<"5">>, <<"vnc.html">> >>, query |-> << >>]}

\* WorkerConfig.vnc_ws: none, without placeholder, and with {id}, {port} and
\* {host} in the host name, the port, the path
WsTemplates ==
  {NoTemplate,
   [scheme |-> "wss", host |-> <<"public.example">>, port |-> "6999",
    path |-> << >>, query |-> << >>],
   [scheme |-> "wss", host |-> <<"edge-", "{id}", ".example">>, port |-> "",
    path |-> << >>, query |-> << >>],
   [scheme |-> "wss", host |-> <<"proxy.example">>, port |-> "{port}",
    path |-> << <<"proxy">>, <<"{port}">> >>, query |-> << >>],
   [scheme |-> "wss", host |-> <<"{host}">>, port |-> "",
    path |-> << <<"proxy">> >>, query |-> << >>],
   [scheme |-> "wss", host |-> <<"gw.example">>, port |-> "",
    path |-> << <<"vnc">>, <<"{port}">>, <<"websockify">> >>, query |-> << >>],
   [scheme |-> "wss", host |-> <<"vnc-", "{host}", ".example">>, port |-> "",
    path |-> << >>, query |-> << >>]}

\* WorkerConfig.vnc_http
HttpTemplates ==
  {NoTemplate,
   [scheme |-> "https", host |-> <<"proxy.example">>, port |-> "",
    path |-> << <<"{host}">>, <<"{port}">> >>, query |-> << >>],
   [scheme |-> "https", host |-> <<"edge.example">>, port |-> "",
    path |-> << <<"view">> >>,
    query |-> << [key |-> "external_port", value |-> <<"{port}">>] >>]}

\* the control plane rewrites the vnc payload of a worker's answer
RewriteOnce ==
  /\ rewriter.pc = "payload"
  /\ rewriter' = [rewriter EXCEPT !.pc = "once",
                    !.once = ApplyVncOverrides(rewriter.worker, rewriter.payload)]
  /\ UNCHANGED <<cfg, vnc_pool, resp, runnerVars, controlVars, besidesRewriter>>

\* the rewriter applied to its own output with the same worker
RewriteAgain ==
  /\ rewriter.pc = "once"
  /\ rewriter' = [rewriter EXCEPT !.pc = "twice",
                    !.twice = ApplyVncOverrides(rewriter.worker, rewriter.once)]
  /\ UNCHANGED <<cfg, vnc_pool, resp, runnerVars, controlVars, besidesRewriter>>

InitRewriter ==
  /\ NoRunner
  /\ resp = NoResp
  /\ NoWorkers
  /\ ControlInit
  /\ IdleBesidesRewriter
  /\ \E vnc_ws \in WsTemplates, vnc_http \in HttpTemplates,
        ws \in WsUrls, http \in HttpUrls :
       rewriter = [pc |-> "payload",
                   worker |-> [vnc_ws |-> vnc_ws, vnc_http |-> vnc_http],
                   payload |-> [ws |-> ws, http |-> http],
                   once |-> [ws |-> NoUrl, http |-> NoUrl],
                   twice |-> [ws |-> NoUrl, http |-> NoUrl]]

NextRewriter == RewriteOnce \/ RewriteAgain

SpecRewriter == InitRewriter /\ [][NextRewriter]_vars

\* C32: applying the rewriter to its own output with the same templates
\* yields that output again
C32_Idempotent ==
  rewriter.pc = "twice" =>
    PayloadText(rewriter.twice) = PayloadText(rewriter.once)

\* a template with {host} inside a longer host name: the second rewrite
\* wraps the host name again
C32_HostWrappedTwice ==
  /\ rewriter.pc = "twice"
  /\ UrlText(rewriter.payload.ws) = "ws://internal:6900/websockify"
  /\ UrlText(rewriter.once.ws) = "wss://vnc-internal.example/websockify"
  /\ UrlText(rewriter.twice.ws) = "wss://vnc-vnc-internal.example.example/websockify"

\* a template with {port} in its query and a payload whose identifier is
\* not its port: the second rewrite renders the port where the first rendered
\* the identifier
C32_PortRenderedAnew ==
  /\ rewriter.pc = "twice"
  /\ UrlText(rewriter.payload.http) = "http://internal:6080/vnc/5/vnc.html"
  /\ UrlText(rewriter.once.http) = "https://edge.example:6080/view?external_port=5"
  /\ UrlText(rewriter.twice.http) = "https://edge.example:6080/view?external_port=6080"

\* what does hold: a rewrite with templates without {host} and without {port}
\* is idempotent
C32_IdempotentWithoutHostAndPort ==
  (/\ rewriter.pc = "twice"
   /\ \A template \in {rewriter.worker.vnc_ws, rewriter.worker.vnc_http} :
        TemplateAtoms(template) \cap {"{host}", "{port}"} = {}) =>
    PayloadText(rewriter.twice) = PayloadText(rewriter.once)

-----------------------------------------------------------------------------
(* Control plane: the shared worker HTTP clients (camofleet_control/service.py) *)

\* httpx.AsyncClient objects created in one run
MaxClients == 3

\* the WorkerConfig values requests are made for: a worker whose URL changes
\* on a configuration reload, and another worker
ClientWorkers == [name : {"a", "b"}, url : {"u1", "u2"}]

\* the name alone
WorkerKeyName(worker) == <<worker.name, "">>

\* _worker_key
WorkerKey(worker) == <<worker.name, worker.url>>

\* _CLIENTS.get(key): the index of the cached client, 0 for None
CachedClient(key) ==
  IF \E e \in clients.cache : e.key = key
    THEN (CHOOSE e \in clients.cache : e.key = key).client
    ELSE 0

\* worker_client -> _get_or_create_http_client: no await of the body suspends
\* (the lock is free whenever a coroutine reaches it), so it is one step.  The
\* cached client is returned unless it is missing or closed.
GetOrCreateHttpClient ==
  /\ clients.pc = "run"
  /\ \E worker \in ClientWorkers :
       LET key == WorkerKey(worker)
           client == CachedClient(key)
           created == Len(clients.objects) + 1
       IN IF client = 0 \/ clients.objects[client].is_closed
          THEN /\ Len(clients.objects) < MaxClients
               /\ clients' =
                    [clients EXCEPT
                       !.objects = Append(@, [name |-> worker.name,
                                              base_url |-> worker.url,
                                              is_closed |-> FALSE]),
                       !.cache = {e \in @ : e.key # key}
                                   \cup {[key |-> key, client |-> created]},
                       !.last = [worker |-> worker, client |-> created,
                                 cached |-> client]]
          ELSE clients' = [clients EXCEPT
                             !.last = [worker |-> worker, client |-> client,
                                       cached |-> client]]
  /\ UNCHANGED <<cfg, vnc_pool, resp, runnerVars, controlVars, besidesClients>>

\* a holder of WorkerClient.http_client closes the client
ClientClosed ==
  /\ clients.pc = "run"
  /\ \E c \in DOMAIN clients.objects :
       /\ ~clients.objects[c].is_closed
       /\ clients' = [clients EXCEPT !.objects[c].is_closed = TRUE]
  /\ UNCHANGED <<cfg, vnc_pool, resp, runnerVars, controlVars, besidesClients>>

\* aclose_worker_clients up to the gather, run by the shutdown event after
\* the server has finished its requests: the cache is emptied under the lock
ShutdownClear ==
  /\ clients.pc = "run"
  /\ clients' = [clients EXCEPT
                   !.pc = "closing",
                   !.held = {e.client : e \in clients.cache},
                   !.closing = {e.client : e \in clients.cache},
                   !.cache = {}]
  /\ UNCHANGED <<cfg, vnc_pool, resp, runnerVars, controlVars, besidesClients>>

\* one client.aclose() of the gather; it marks the client closed whether or
\* not closing the transport raises
ShutdownClose ==
  /\ clients.pc = "closing"
  /\ \E c \in clients.closing :
       clients' = [clients EXCEPT !.objects[c].is_closed = TRUE,
                                  !.closing = @ \ {c}]
  /\ UNCHANGED <<cfg, vnc_pool, resp, runnerVars, controlVars, besidesClients>>

\* the gather and aclose_worker_clients return
ShutdownReturn ==
  /\ clients.pc = "closing"
  /\ clients.closing = {}
  /\ clients' = [clients EXCEPT !.pc = "closed"]
  /\ UNCHANGED <<cfg, vnc_pool, resp, runnerVars, controlVars, besidesClients>>

InitClients ==
  /\ NoRunner
  /\ resp = NoResp
  /\ NoWorkers
  /\ ControlInit
  /\ IdleBesidesClients
  /\ clients = [pc |-> "run", objects |-> << >>, cache |-> {}, held |-> {},
                closing |-> {},
                last |-> [worker |-> [name |-> "", url |-> ""], client |-> 0,
                          cached |-> 0]]

NextClients ==
  \/ GetOrCreateHttpClient
  \/ ClientClosed
  \/ ShutdownClear
  \/ ShutdownClose
  \/ ShutdownReturn

SpecClients == InitClients /\ [][NextClients]_vars

\* the cache maps a key to one client, which was made for the key's worker;
\* no two open clients were made for the same worker name and base URL, and
\* before shutdown every open client is in the cache; after
\* aclose_worker_clients the cache is empty and every client is closed
ClientCacheInv ==
  clients.pc # "idle" =>
    /\ \A k1, k2 \in clients.cache : k1.key = k2.key => k1 = k2
    /\ \A c1, c2 \in DOMAIN clients.objects :
         (/\ ~clients.objects[c1].is_closed
          /\ ~clients.objects[c2].is_closed
          /\ clients.objects[c1].name = clients.objects[c2].name
          /\ clients.objects[c1].base_url = clients.objects[c2].base_url) => c1 = c2
    /\ clients.pc = "run" =>
         \A c \in DOMAIN clients.objects :
           ~clients.objects[c].is_closed => \E e \in clients.cache : e.client = c
    /\ clients.pc \in {"closing", "closed"} => clients.cache = {}
    /\ clients.pc = "closed" =>
         \A c \in DOMAIN clients.objects : clients.objects[c].is_closed

\* what a request gets: an open client made for the worker's name and URL,
\* the one the cache held if that was open
RequestGetsOpenClient ==
  (clients.pc = "run" /\ clients'.last # clients.last) =>
    LET got == clients'.objects[clients'.last.client]
        worker == clients'.last.worker
        cached == clients'.last.cached
    IN /\ ~got.is_closed
       /\ got.name = worker.name
       /\ got.base_url = worker.url
       /\ (cached # 0 /\ ~clients.objects[cached].is_closed) =>
            clients'.last.client = cached

\* C33: at most one open HTTP client per (worker name, base URL); requests
\* for the same worker get the same client object while it is open, a closed
\* client is replaced by a new one, and after aclose_worker_clients at
\* shutdown the cache is empty and every client that was cached is closed
C33_OneClientPerWorker == []ClientCacheInv /\ [][RequestGetsOpenClient]_vars

\* two requests for one worker got the same client, a closed client was
\* replaced, and the shutdown closed what the cache held
C33_Witness ==
  /\ clients.pc = "closed"
  /\ Len(clients.objects) = 3
  /\ clients.held # {}
  /\ clients.last.cached # 0
  /\ clients.last.client # clients.last.cached

C33_WitnessReused ==
  /\ clients.pc = "run"
  /\ clients.last.cached # 0
  /\ clients.last.client = clients.last.cached

-----------------------------------------------------------------------------
(* C34: the order of a session's teardown *)

\* the teardown of handle id closes the browser server in this step
ClosesServer(id) ==
  /\ TdRunning(handles[id])
  /\ handles[id].server \in servers
  /\ handles[id].server \notin servers'

\* the teardown of handle id leaves its VNC phase in this step
LeavesVncPhase(id) == handles[id].td = "vnc" /\ handles'[id].td # "vnc"

\* the teardown of handle id gives the slot back in this step
ReleasesSlot(id) ==
  /\ handles[id].td = "vnc"
  /\ handles[id].vnc_session \in vnc_pool.active
  /\ handles[id].vnc_session \notin vnc_pool'.active

\* handle id becomes DEAD in this step
BecomesDead(id) == handles[id].status # "DEAD" /\ handles'[id].status = "DEAD"

\* the browser server is closed only when no controller handle is open
ControllerBeforeServer(id) == ClosesServer(id) => ~handles[id].controller

\* the VNC chain is stopped only after the browser server was closed
ServerBeforeChain(id) == LeavesVncPhase(id) => handles[id].server \notin servers

\* the slot is released only with the chain stopped
ChainBeforeSlot(id) == ReleasesSlot(id) => handles[id].vnc_session \notin chains'

\* DEAD is set only with the controller handles closed, the browser server
\* closed, the chain stopped and the slot released
DeadAfterAll(id) ==
  BecomesDead(id) =>
    /\ ~handles'[id].controller
    /\ handles[id].server \notin servers'
    /\ handles[id].vnc_session # None =>
         /\ handles[id].vnc_session \notin chains'
         /\ handles[id].vnc_session \notin vnc_pool'.active

\* a DEAD handle stays DEAD
DeadForGood(id) == handles[id].status = "DEAD" => handles'[id].status = "DEAD"

\* C34: a teardown closes the controller handles first, then the browser
\* server, then stops the VNC chain, then releases the slot, and sets DEAD
\* only after all of these; a DEAD session stays DEAD
C34_TeardownOrder ==
  [][\A id \in DOMAIN handles :
       /\ ControllerBeforeServer(id)
       /\ ServerBeforeChain(id)
       /\ ChainBeforeSlot(id)
       /\ DeadAfterAll(id)
       /\ DeadForGood(id)]_vars

\* the parts of the order that hold on every path: the chain is stopped only
\* after the browser server was closed, and DEAD is never left
C34_ServerFirstDeadForGood ==
  [][\A id \in DOMAIN handles : ServerBeforeChain(id) /\ DeadForGood(id)]_vars

\* close() cancelled the reaper inside _terminate_vnc_processes: the slot of
\* the session is back in the pool, its chain still runs and it is not DEAD
C34_SlotFreeChainRunning ==
  \E id \in DOMAIN handles :
    /\ handles[id].td = "cancelled"
    /\ handles[id].status = "TERMINATING"
    /\ handles[id].server \notin servers
    /\ handles[id].vnc_session \in chains
    /\ handles[id].vnc_session \notin vnc_pool.active

-----------------------------------------------------------------------------
(* Runner: the processes of one VNC chain (_start_vnc_session,
   _stop_vnc_session, _terminate_vnc_processes; the same code is in
   camoufox_runner/vnc.py) *)

\* the processes of a chain in launch order: display server, framebuffer
\* exporter, WS adapter
LaunchOrder == <<"Xvfb", "x11vnc", "websockify">>

\* the processes start_session waits for after the spawn
\* (_wait_for_display_socket, _wait_for_port)
AwaitedAfterSpawn == {"Xvfb", "websockify"}

Reversed(s) == [i \in 1..Len(s) |-> s[Len(s) + 1 - i]]

\* the events of the log that end a process, in order
Kills(log) == SelectSeq(log, LAMBDA e : e \in {LaunchOrder[i] : i \in DOMAIN LaunchOrder})

\* start_session up to its first spawn: the slot is acquired
StartSession ==
  /\ chain.pc = "free"
  /\ chain' = [chain EXCEPT !.pc = "spawn", !.held = TRUE]
  /\ UNCHANGED <<cfg, vnc_pool, resp, runnerVars, controlVars, besidesChain>>

\* the next process of the chain: _spawn_process raises, or the process
\* starts with its drain task and the wait for its socket or port succeeds or
\* raises; after the third process the VncSession is returned
SpawnProcess ==
  /\ chain.pc = "spawn"
  /\ \E spawned \in BOOLEAN, ready \in BOOLEAN :
       LET name == LaunchOrder[Len(chain.processes) + 1]
           started == [chain EXCEPT !.processes = Append(@, name),
                                    !.alive = @ \cup {name},
                                    !.drain_tasks = Append(@, "running")]
       IN /\ (~ready => spawned /\ name \in AwaitedAfterSpawn)
          /\ chain' =
               IF ~spawned
                 THEN [chain EXCEPT !.pc = "terminate", !.mode = "abort",
                                    !.next = Len(chain.processes)]
               ELSE IF ~ready
                 THEN [started EXCEPT !.pc = "terminate", !.mode = "abort",
                                      !.next = Len(started.processes)]
               ELSE IF Len(started.processes) = Len(LaunchOrder)
                 THEN [started EXCEPT !.pc = "ready"]
               ELSE started
  /\ UNCHANGED <<cfg, vnc_pool, resp, runnerVars, controlVars, besidesChain>>

\* a drain task ends by itself: _drain_stream returns at end of file, or
\* raises (line.decode() of a line that is not UTF-8, readline() of a line
\* over the stream limit)
DrainTaskEnds ==
  /\ chain.pc \in {"spawn", "ready", "terminate"}
  /\ \E i \in DOMAIN chain.drain_tasks, how \in {"returned", "raised"} :
       /\ chain.drain_tasks[i] = "running"
       /\ chain' = [chain EXCEPT !.drain_tasks[i] = how]
  /\ UNCHANGED <<cfg, vnc_pool, resp, runnerVars, controlVars, besidesChain>>

\* stop_session of a started chain
StopSession ==
  /\ chain.pc = "ready"
  /\ chain' = [chain EXCEPT !.pc = "terminate", !.mode = "stop",
                            !.next = Len(chain.processes)]
  /\ UNCHANGED <<cfg, vnc_pool, resp, runnerVars, controlVars, besidesChain>>

\* _terminate_vnc_processes, one process of `reversed(processes)`: what
\* _terminate_process raises is suppressed
TerminateProcess ==
  /\ chain.pc = "terminate"
  /\ chain.next >= 1
  /\ chain' = [chain EXCEPT !.alive = @ \ {chain.processes[chain.next]},
                            !.log = Append(@, chain.processes[chain.next]),
                            !.next = @ - 1]
  /\ UNCHANGED <<cfg, vnc_pool, resp, runnerVars, controlVars, besidesChain>>

\* _terminate_vnc_processes after the processes: task.cancel() for every
\* drain task; a task that has ended is not changed by it
CancelDrainTasks ==
  /\ chain.pc = "terminate"
  /\ chain.next = 0
  /\ chain' = [chain EXCEPT
                 !.pc = "drain", !.next = 1, !.log = Append(@, "cancel"),
                 !.drain_tasks = [i \in DOMAIN @ |->
                                    IF @[i] = "running" THEN "cancelled" ELSE @[i]]]
  /\ UNCHANGED <<cfg, vnc_pool, resp, runnerVars, controlVars, besidesChain>>

\* `with suppress(CancelledError): await task` for the next drain task: the
\* exception a task ended with is raised here.  Then stop_session releases
\* the slot in its finally and start_session does not release it.
AwaitDrainTask ==
  /\ chain.pc = "drain"
  /\ chain.next <= Len(chain.drain_tasks)
  /\ chain' =
       IF chain.drain_tasks[chain.next] # "raised"
         THEN [chain EXCEPT !.next = @ + 1]
       ELSE IF chain.mode = "stop"
         THEN [chain EXCEPT !.pc = "done", !.raised = TRUE, !.held = FALSE,
                            !.log = Append(@, "release")]
       ELSE [chain EXCEPT !.pc = "done", !.raised = TRUE]
  /\ UNCHANGED <<cfg, vnc_pool, resp, runnerVars, controlVars, besidesChain>>

\* _terminate_vnc_processes returned: the slot is released; the abort then
\* re-raises the launch error
ReleaseSlot ==
  /\ chain.pc = "drain"
  /\ chain.next > Len(chain.drain_tasks)
  /\ chain' = [chain EXCEPT !.pc = "done", !.held = FALSE,
                            !.raised = chain.mode = "abort",
                            !.log = Append(@, "release")]
  /\ UNCHANGED <<cfg, vnc_pool, resp, runnerVars, controlVars, besidesChain>>

InitChain ==
  /\ NoRunner
  /\ resp = NoResp
  /\ NoWorkers
  /\ ControlInit
  /\ IdleBesidesChain
  /\ chain = [pc |-> "free", mode |-> "none", held |-> FALSE, processes |-> << >>,
              alive |-> {}, drain_tasks |-> << >>, next |-> 0, raised |-> FALSE,
              log |-> << >>]

NextChain ==
  \/ StartSession
  \/ SpawnProcess
  \/ DrainTaskEnds
  \/ StopSession
  \/ TerminateProcess
  \/ CancelDrainTasks
  \/ AwaitDrainTask
  \/ ReleaseSlot

SpecChain == InitChain /\ [][NextChain]_vars

\* C35: when a stop or an abort has ended, the started processes were
\* terminated in reverse launch order, then the drain tasks cancelled, and
\* the slot is released, also when awaiting a drain task raised
C35_ReverseThenRelease ==
  chain.pc = "done" =>
    /\ chain.alive = {}
    /\ Kills(chain.log) = Reversed(chain.processes)
    /\ \E k \in DOMAIN chain.log :
         /\ chain.log[k] = "cancel"
         /\ \A j \in DOMAIN chain.log :
              chain.log[j] \in {chain.processes[i] : i \in DOMAIN chain.processes} => j < k
         /\ \A j \in DOMAIN chain.log : chain.log[j] = "release" => j > k
    /\ ~chain.held

\* what holds of both paths: the order of the terminations and of the cancel,
\* and the release at the end of every stop and of every abort in which no
\* drain task had raised
C35_OrderAndStopRelease ==
  chain.pc = "done" =>
    /\ chain.alive = {}
    /\ Kills(chain.log) = Reversed(chain.processes)
    /\ \E k \in DOMAIN chain.log :
         /\ chain.log[k] = "cancel"
         /\ \A j \in DOMAIN chain.log :
              chain.log[j] \in {chain.processes[i] : i \in DOMAIN chain.processes} => j < k
         /\ \A j \in DOMAIN chain.log : chain.log[j] = "release" => j > k
    /\ (chain.mode = "stop" \/ ~(\E i \in DOMAIN chain.drain_tasks :
                                   chain.drain_tasks[i] = "raised")) => ~chain.held
    /\ chain.held <=> (chain.mode = "abort" /\ chain.log[Len(chain.log)] # "release")

\* a launch aborted after x11vnc had started: both processes terminated in
\* reverse order, the drain tasks cancelled, and the slot still held because
\* awaiting a drain task raised
C35_AbortKeepsSlot ==
  /\ chain.pc = "done"
  /\ chain.mode = "abort"
  /\ chain.processes = <<"Xvfb", "x11vnc", "websockify">>
  /\ chain.log = <<"websockify", "x11vnc", "Xvfb", "cancel">>
  /\ chain.raised
  /\ chain.held

\* a stop in which awaiting a drain task raised: the slot is released
C35_StopReleasesAfterRaise ==
  /\ chain.pc = "done"
  /\ chain.mode = "stop"
  /\ chain.log = <<"websockify", "x11vnc", "Xvfb", "cancel", "release">>
  /\ \E i \in DOMAIN chain.drain_tasks : chain.drain_tasks[i] = "raised"
  /\ ~chain.held

-----------------------------------------------------------------------------
(* Runner: PrewarmPool (camoufox_runner/prewarm.py) with BrowserLauncher.launch
   (camoufox_runner/browser.py) and VncProcessManager (camoufox_runner/vnc.py).
   The rounds are those of start() and of the background task; a launch is
   followed through its awaits:
     "h_readline" / "v_readline"  the child exists, launch awaits its first line
     "h_cleanup" / "v_cleanup"    the server object is built, the finally of
                                  launch awaits the removal of the config file
     "v_start"                    start_session holds a slot and spawns the chain
     "v_stop"                     stop_session after a failed launch
   Exceptions of drain tasks and of close() are left to the claims about them. *)

\* browser servers launched by the pool in one run
MaxLaunches == 3

\* the slots of the VNC resource pool
PoolSlots == {1, 2}

NoRound ==
  [pc |-> "none", need_headless |-> 0, need_vnc |-> 0, server |-> 0, slot |-> 0,
   ws_endpoint |-> ""]

\* the characters str.strip() removes
Whitespace == {" ", "\t", "\r", "\n"}

\* what readline() of the child's stdout may return, character by character:
\* nothing at end of file, else a line up to its newline or up to end of file
FirstLines ==
  {<< >>, <<"\n">>, <<" ", "\r", "\n">>, <<"w", "s", "\n">>,
   <<" ", "w", " ", "s", "\r", "\n">>, <<"w", "s">>}

\* raw_endpoint.decode().strip()
Strip(raw) ==
  LET kept == {i \in 1..Len(raw) : raw[i] \notin Whitespace}
  IN IF kept = {} THEN ""
     ELSE LET first == CHOOSE i \in kept : \A j \in kept : i <= j
              last == CHOOSE i \in kept : \A j \in kept : i >= j
          IN Join(SubSeq(raw, first, last))

\* launch after wait_for(process.stdout.readline(), timeout): the timeout and
\* `not raw_endpoint` raise RuntimeError, every other line makes a server
Launched(arrived, raw_endpoint) ==
  IF ~arrived THEN [ok |-> FALSE, error |-> "Timed out launching Camoufox server",
                    ws_endpoint |-> ""]
  ELSE IF raw_endpoint = << >>
    THEN [ok |-> FALSE, error |-> "Failed to launch Camoufox server", ws_endpoint |-> ""]
  ELSE [ok |-> TRUE, error |-> "", ws_endpoint |-> Strip(raw_endpoint)]

\* no launch has ended yet
NoLaunch ==
  [arrived |-> TRUE, raw_endpoint |-> << >>, ok |-> FALSE, error |-> "", server |-> 0]

\* where top_up_once goes on: the headless loop, then the VNC loop, each
\* iteration after a look at _closing.  At the end of its own round start()
\* creates the task, whose first round begins like one after a sleep.
Continue(p, round) ==
  IF round.need_headless > 0 /\ ~p.closing /\ p.launched < MaxLaunches
    THEN [p EXCEPT !.round = [round EXCEPT !.pc = "h_readline", !.server = p.launched + 1,
                                           !.slot = 0],
                   !.launched = @ + 1,
                   !.procs = @ \cup {p.launched + 1}]
  ELSE IF round.need_vnc > 0 /\ ~p.closing /\ PoolSlots \ p.active # {}
            /\ p.launched < MaxLaunches
    THEN LET slot == CHOOSE s \in PoolSlots \ p.active :
                       \A o \in PoolSlots \ p.active : s <= o
         IN [p EXCEPT !.round = [round EXCEPT !.pc = "v_start", !.need_headless = 0,
                                              !.server = 0, !.slot = slot],
                      !.active = @ \cup {slot},
                      !.chains = @ \cup {slot}]
  ELSE [p EXCEPT !.round = NoRound, !.task = "sleep"]

\* task.cancel() and `await self._task` of stop(): CancelledError is raised at
\* the await the round is suspended in.  It is no Exception: the except
\* clauses of launch, of start_session and of top_up_once do not run, only
\* the finally of launch (the config file) and of stop_session (the slot).
Cancelled(p) ==
  IF p.round.pc = "v_stop"
    THEN [p EXCEPT !.task = "none", !.round = NoRound,
                   !.active = @ \ {p.round.slot}, !.cancelled = p.round]
    ELSE [p EXCEPT !.task = "none", !.round = NoRound, !.cancelled = p.round]

\* top_up_once up to its first launch: start() runs it before it creates the
\* task, the task runs it after every sleep
TopUpOnce ==
  /\ prewarmer.pc = "up"
  /\ \/ prewarmer.task = "start" /\ prewarmer.round.pc = "none"
     \/ prewarmer.task = "sleep"
  /\ prewarmer' =
       LET p == [prewarmer EXCEPT !.task = IF @ = "sleep" THEN "round" ELSE @]
       IN IF p.closing THEN Continue(p, NoRound)
          ELSE Continue(p, [NoRound EXCEPT
                  !.need_headless = IF p.headless_target > Len(p.headless)
                                    THEN p.headless_target - Len(p.headless) ELSE 0,
                  !.need_vnc = IF p.vnc_target > Len(p.vnc)
                               THEN p.vnc_target - Len(p.vnc) ELSE 0])
  /\ UNCHANGED <<cfg, vnc_pool, resp, runnerVars, controlVars, besidesPrewarmer>>

\* start_session returns the VncSession, or raises after its except branch
\* has ended the chain and released the slot
VncStarted ==
  /\ prewarmer.pc = "up"
  /\ prewarmer.round.pc = "v_start"
  /\ \E ok \in BOOLEAN :
       prewarmer' =
         IF ok
           THEN [prewarmer EXCEPT !.round.pc = "v_readline",
                                  !.round.server = prewarmer.launched + 1,
                                  !.launched = @ + 1,
                                  !.procs = @ \cup {prewarmer.launched + 1}]
           ELSE Continue([prewarmer EXCEPT !.chains = @ \ {prewarmer.round.slot},
                                           !.active = @ \ {prewarmer.round.slot}],
                         [prewarmer.round EXCEPT !.need_vnc = 0, !.slot = 0])
  /\ UNCHANGED <<cfg, vnc_pool, resp, runnerVars, controlVars, besidesPrewarmer>>

\* launch: the first line of the child arrives, or end of file, or the
\* timeout; after an error launch ends the child and raises, and top_up_once
\* leaves the loop, for a VNC entry through stop_session
FirstLine ==
  /\ prewarmer.pc = "up"
  /\ prewarmer.round.pc \in {"h_readline", "v_readline"}
  /\ \E arrived \in BOOLEAN, raw_endpoint \in FirstLines :
       /\ ~arrived => raw_endpoint = << >>
       /\ prewarmer' =
            LET result == Launched(arrived, raw_endpoint)
                p == [prewarmer EXCEPT !.last_launch =
                        [arrived |-> arrived, raw_endpoint |-> raw_endpoint,
                         ok |-> result.ok, error |-> result.error,
                         server |-> prewarmer.round.server]]
            IN IF result.ok
                 THEN [p EXCEPT !.round.pc = IF @ = "h_readline" THEN "h_cleanup"
                                             ELSE "v_cleanup",
                                !.round.ws_endpoint = result.ws_endpoint]
               ELSE IF p.round.pc = "h_readline"
                 THEN Continue([p EXCEPT !.procs = @ \ {p.round.server}],
                               [p.round EXCEPT !.need_headless = 0, !.server = 0])
               ELSE [p EXCEPT !.procs = @ \ {p.round.server},
                              !.round.pc = "v_stop", !.round.server = 0]
  /\ UNCHANGED <<cfg, vnc_pool, resp, runnerVars, controlVars, besidesPrewarmer>>

\* launch returns the server and top_up_once appends the entry
Appended ==
  /\ prewarmer.pc = "up"
  /\ prewarmer.round.pc \in {"h_cleanup", "v_cleanup"}
  /\ prewarmer' =
       LET entry == [server |-> prewarmer.round.server, slot |-> prewarmer.round.slot,
                     ws_endpoint |-> prewarmer.round.ws_endpoint]
       IN IF prewarmer.round.pc = "h_cleanup"
          THEN Continue([prewarmer EXCEPT !.headless = Append(@, entry)],
                        [prewarmer.round EXCEPT !.need_headless = @ - 1, !.server = 0,
                                                !.ws_endpoint = ""])
          ELSE Continue([prewarmer EXCEPT !.vnc = Append(@, entry)],
                        [prewarmer.round EXCEPT !.need_vnc = @ - 1, !.server = 0,
                                                !.slot = 0, !.ws_endpoint = ""])
  /\ UNCHANGED <<cfg, vnc_pool, resp, runnerVars, controlVars, besidesPrewarmer>>

\* stop_session after a failed launch of a VNC entry, then break
VncStopped ==
  /\ prewarmer.pc = "up"
  /\ prewarmer.round.pc = "v_stop"
  /\ prewarmer' = Continue([prewarmer EXCEPT !.chains = @ \ {prewarmer.round.slot},
                                             !.active = @ \ {prewarmer.round.slot}],
                           [prewarmer.round EXCEPT !.need_vnc = 0, !.slot = 0])
  /\ UNCHANGED <<cfg, vnc_pool, resp, runnerVars, controlVars, besidesPrewarmer>>

\* acquire(vnc, headless) by a create() that returns an entry: the entry
\* leaves its stack with its server and VncSession, which are the session's
\* from then on; for vnc=false and headless=false it returns None
Acquire ==
  /\ prewarmer.pc = "up"
  /\ prewarmer.closer = "idle"
  /\ \E vnc \in BOOLEAN, headless \in BOOLEAN :
       /\ IF vnc THEN prewarmer.vnc # << >>
          ELSE headless /\ prewarmer.headless # << >>
       /\ prewarmer' =
            LET stack == IF vnc THEN prewarmer.vnc ELSE prewarmer.headless
                entry == stack[Len(stack)]
                p == [prewarmer EXCEPT !.procs = @ \ {entry.server},
                                       !.chains = @ \ {entry.slot},
                                       !.taken = @ \cup {entry}]
            IN IF vnc THEN [p EXCEPT !.vnc = SubSeq(@, 1, Len(@) - 1)]
               ELSE [p EXCEPT !.headless = SubSeq(@, 1, Len(@) - 1)]
  /\ UNCHANGED <<cfg, vnc_pool, resp, runnerVars, controlVars, besidesPrewarmer>>

\* stop() of a pool whose task exists, up to the end of the task
StopTask ==
  /\ prewarmer.pc = "up"
  /\ prewarmer.closer = "idle"
  /\ prewarmer.task \in {"round", "sleep"}
  /\ prewarmer' = Cancelled(prewarmer)
  /\ UNCHANGED <<cfg, vnc_pool, resp, runnerVars, controlVars, besidesPrewarmer>>

\* close(): _closing = True, stop(), then the stacks are emptied under the
\* locks
ClosePool ==
  /\ prewarmer.pc = "up"
  /\ prewarmer.closer = "idle"
  /\ prewarmer.task # "start"
  /\ prewarmer' =
       LET p == IF prewarmer.task = "none" THEN prewarmer ELSE Cancelled(prewarmer)
       IN [p EXCEPT !.closing = TRUE, !.closer = "dispose",
                    !.resources = p.headless \o p.vnc,
                    !.headless = << >>, !.vnc = << >>]
  /\ UNCHANGED <<cfg, vnc_pool, resp, runnerVars, controlVars, besidesPrewarmer>>

\* close(), one item: server.close(), then stop_session(item.vnc_session);
\* after the last one _closing is reset
DisposeItem ==
  /\ prewarmer.pc = "up"
  /\ prewarmer.closer = "dispose"
  /\ prewarmer' =
       IF prewarmer.resources = << >>
         THEN [prewarmer EXCEPT !.closer = "closed", !.closing = FALSE]
         ELSE LET item == Head(prewarmer.resources)
              IN [prewarmer EXCEPT !.resources = Tail(@),
                                   !.procs = @ \ {item.server},
                                   !.chains = @ \ {item.slot},
                                   !.active = @ \ {item.slot}]
  /\ UNCHANGED <<cfg, vnc_pool, resp, runnerVars, controlVars, besidesPrewarmer>>

\* PrewarmPool.__init__ with a target above zero, start() entered
InitPrewarmer ==
  /\ NoRunner
  /\ resp = NoResp
  /\ NoWorkers
  /\ ControlInit
  /\ IdleBesidesPrewarmer
  /\ \E headless_target \in 0..1, vnc_target \in 0..1 :
       /\ headless_target + vnc_target > 0
       /\ prewarmer = [pc |-> "up", headless_target |-> headless_target,
                       vnc_target |-> vnc_target, closing |-> FALSE,
                       task |-> "start", round |-> NoRound,
                       headless |-> << >>, vnc |-> << >>,
                       procs |-> {}, chains |-> {}, active |-> {}, taken |-> {},
                       launched |-> 0, closer |-> "idle", resources |-> << >>,
                       cancelled |-> NoRound, last_launch |-> NoLaunch]

NextPrewarmer ==
  \/ TopUpOnce
  \/ VncStarted
  \/ FirstLine
  \/ Appended
  \/ VncStopped
  \/ Acquire
  \/ StopTask
  \/ ClosePool
  \/ DisposeItem

SpecPrewarmer == InitPrewarmer /\ [][NextPrewarmer]_vars

\* C36: the task stopped during a launch has ended, and after close() no
\* browser-server process, chain or slot of the cancelled round is allocated
C36_CancelledLaunchReleased ==
  (prewarmer.pc = "up" /\ prewarmer.cancelled.pc # "none") =>
    /\ prewarmer.task = "none"
    /\ prewarmer.round = NoRound
    /\ prewarmer.closer = "closed" =>
         /\ prewarmer.cancelled.server \notin prewarmer.procs
         /\ prewarmer.cancelled.slot \notin prewarmer.chains
         /\ prewarmer.cancelled.slot \notin prewarmer.active

\* what holds: the cancelled task has ended with its round, and close()
\* leaves no entry in the stacks and no process of an entry running
C36_TaskEndsStacksDisposed ==
  prewarmer.pc = "up" =>
    /\ prewarmer.cancelled.pc # "none" =>
         (prewarmer.task = "none" /\ prewarmer.round = NoRound)
    /\ prewarmer.closer = "closed" =>
         /\ prewarmer.headless = << >> /\ prewarmer.vnc = << >>
         /\ prewarmer.task = "none"
         /\ prewarmer.procs \subseteq {prewarmer.cancelled.server}
         /\ prewarmer.chains \subseteq {prewarmer.cancelled.slot}
         /\ prewarmer.active \subseteq
              {e.slot : e \in prewarmer.taken} \cup {prewarmer.cancelled.slot}

\* close() has returned; the child of the launch of a VNC entry that the stop
\* cancelled still runs, and so does its chain on a slot that is still active
C36_CancelledLaunchLeaks ==
  /\ prewarmer.pc = "up"
  /\ prewarmer.closer = "closed"
  /\ prewarmer.cancelled.pc = "v_readline"
  /\ prewarmer.cancelled.server \in prewarmer.procs
  /\ prewarmer.cancelled.slot \in prewarmer.chains
  /\ prewarmer.cancelled.slot \in prewarmer.active

-----------------------------------------------------------------------------
(* C37: the start-URL preload against the teardown of its session *)

\* C37: create() returns with the preload still pending, and a session that
\* is DEAD holds no open controller handle, also when the preload completed
\* after the teardown had started
C37_DeadHoldsNoController ==
  \A id \in DOMAIN handles :
    handles[id].status = "DEAD" => ~handles[id].controller

\* _bootstrap_session stored its handles while server.close() of the teardown
\* was awaited: the session is DEAD, out of the table, its browser server is
\* closed and the controller handles were never closed
C37_LatePreloadKeepsController ==
  \E id \in DOMAIN handles :
    /\ handles[id].status = "DEAD"
    /\ handles[id].boot = "done"
    /\ handles[id].controller
    /\ handles[id].server \notin servers
    /\ id \notin sessions

-----------------------------------------------------------------------------
(* worker-vnc: idle_watchdog of _proxy_websocket against the clock.  Time is
   counted in seconds; both settings are at least 1000 ms.  The forwarders
   set activity_event after each payload they passed on; pings and pongs do
   not set it.  The read and write timeouts of the forwarders, which raise
   IdleTimeoutError too, are not part of this component. *)

\* the seconds a connection is followed for
MaxClock == 7

\* tcp_idle_timeout_ms and ws_ping_interval_ms, in seconds
TimeoutSeconds == 1..3

\* min(ping_interval, idle_timeout)
Min(a, b) == IF a <= b THEN a ELSE b

\* the sleep of one round of idle_watchdog
WatchdogSleep(ping_interval, idle_timeout) == Min(ping_interval, idle_timeout)

\* client_to_tcp or tcp_to_client passed a payload on: activity_event.set()
DataTransferred ==
  /\ watchdog.pc = "open"
  /\ watchdog' = [watchdog EXCEPT !.activity_event = TRUE, !.last_activity = watchdog.now]
  /\ UNCHANGED <<cfg, vnc_pool, resp, runnerVars, controlVars, besidesWatchdog>>

\* a second passes while the watchdog sleeps
SecondPasses ==
  /\ watchdog.pc = "open"
  /\ watchdog.now < watchdog.wake
  /\ watchdog.now < MaxClock
  /\ watchdog' = [watchdog EXCEPT !.now = @ + 1]
  /\ UNCHANGED <<cfg, vnc_pool, resp, runnerVars, controlVars, besidesWatchdog>>

\* idle_watchdog after its sleep: the event is cleared when it is set, else
\* IdleTimeoutError ends the connection with 1011 idle_timeout
WatchdogWakes ==
  /\ watchdog.pc = "open"
  /\ watchdog.now = watchdog.wake
  /\ watchdog' =
       IF watchdog.activity_event
         THEN [watchdog EXCEPT !.activity_event = FALSE,
                               !.wake = watchdog.now
                                 + WatchdogSleep(watchdog.ping_interval, watchdog.idle_timeout)]
         ELSE [watchdog EXCEPT !.pc = "idle_timeout"]
  /\ UNCHANGED <<cfg, vnc_pool, resp, runnerVars, controlVars, besidesWatchdog>>

\* _proxy_websocket has created its tasks: activity_event is set and the
\* watchdog sleeps for the first time
InitWatchdog ==
  /\ NoRunner
  /\ resp = NoResp
  /\ NoWorkers
  /\ ControlInit
  /\ IdleBesidesWatchdog
  /\ \E ping_interval \in TimeoutSeconds, idle_timeout \in TimeoutSeconds :
       watchdog = [pc |-> "open", ping_interval |-> ping_interval,
                   idle_timeout |-> idle_timeout, now |-> 0, last_activity |-> 0,
                   activity_event |-> TRUE,
                   wake |-> WatchdogSleep(ping_interval, idle_timeout)]

NextWatchdog ==
  \/ DataTransferred
  \/ SecondPasses
  \/ WatchdogWakes

SpecWatchdog == InitWatchdog /\ [][NextWatchdog]_vars

\* C38: the watchdog ends a connection only after at least tcp_idle_timeout_ms
\* without data, whatever ws_ping_interval_ms is
C38_IdleForWholeTimeout ==
  watchdog.pc = "idle_timeout" =>
    watchdog.now - watchdog.last_activity >= watchdog.idle_timeout

\* what holds: the connection had no data for one sleep of the watchdog, the
\* smaller of the ping interval and the idle timeout
C38_IdleForOneSleep ==
  watchdog.pc = "idle_timeout" =>
    watchdog.now - watchdog.last_activity
      >= WatchdogSleep(watchdog.ping_interval, watchdog.idle_timeout)

\* a connection with a ping interval below the idle timeout is ended though
\* its last data is more recent than the idle timeout
C38_ClosedWithinTimeout ==
  /\ watchdog.pc = "idle_timeout"
  /\ watchdog.ping_interval < watchdog.idle_timeout
  /\ watchdog.now - watchdog.last_activity < watchdog.idle_timeout

\* with a ping interval of at least the idle timeout the watchdog ends a
\* connection that had no data for the idle timeout
C38_ClosedAfterTimeout ==
  /\ watchdog.pc = "idle_timeout"
  /\ watchdog.ping_interval >= watchdog.idle_timeout
  /\ watchdog.now - watchdog.last_activity >= watchdog.idle_timeout

-----------------------------------------------------------------------------
(* C39: the ws_endpoint of the servers that launch returns *)

\* the servers the pool holds or has handed out, and the one being returned
ReturnedServers ==
  {prewarmer.headless[i] : i \in 1..Len(prewarmer.headless)}
    \cup {prewarmer.vnc[i] : i \in 1..Len(prewarmer.vnc)}
    \cup prewarmer.taken
    \cup {prewarmer.resources[i] : i \in 1..Len(prewarmer.resources)}

\* the first line of the last launch gave no endpoint: none arrived in time,
\* or it was empty or blank
NoEndpointRead ==
  /\ prewarmer.last_launch.server # 0
  /\ \/ ~prewarmer.last_launch.arrived
     \/ Strip(prewarmer.last_launch.raw_endpoint) = ""

\* C39: every server that launch returned has a non-empty ws_endpoint; a first
\* line that is empty, blank or late makes launch fail with a launch error
\* and end the child
C39_EndpointNeverEmpty ==
  prewarmer.pc = "up" =>
    /\ \A entry \in ReturnedServers : entry.ws_endpoint # ""
    /\ prewarmer.round.pc \in {"h_cleanup", "v_cleanup"} => prewarmer.round.ws_endpoint # ""
    /\ NoEndpointRead =>
         /\ ~prewarmer.last_launch.ok
         /\ prewarmer.last_launch.error # ""
         /\ prewarmer.last_launch.server \notin prewarmer.procs

\* what holds: end of file before any byte and the timeout make launch fail
\* and end the child, and a line with an endpoint gives the endpoint without
\* the surrounding whitespace
C39_EofAndTimeoutFail ==
  (prewarmer.pc = "up" /\ prewarmer.last_launch.server # 0) =>
    /\ (~prewarmer.last_launch.arrived \/ prewarmer.last_launch.raw_endpoint = << >>) =>
         /\ ~prewarmer.last_launch.ok
         /\ prewarmer.last_launch.error # ""
         /\ prewarmer.last_launch.server \notin prewarmer.procs
    /\ (prewarmer.last_launch.arrived
          /\ prewarmer.last_launch.raw_endpoint \in {<<"w", "s", "\n">>, <<"w", "s">>}) =>
         /\ prewarmer.last_launch.ok
         /\ \A entry \in ReturnedServers :
              entry.server = prewarmer.last_launch.server => entry.ws_endpoint = "ws"

\* a child whose first line was blank became a ready entry with an empty
\* ws_endpoint, and it runs
C39_BlankLineServer ==
  /\ prewarmer.pc = "up"
  /\ \E i \in 1..Len(prewarmer.headless) :
       /\ prewarmer.headless[i].ws_endpoint = ""
       /\ prewarmer.headless[i].server \in prewarmer.procs
       /\ prewarmer.headless[i].server = prewarmer.last_launch.server
  /\ prewarmer.last_launch.raw_endpoint = <<" ", "\r", "\n">>

\* the timeout ended the launch: no server was returned and the child is gone
C39_TimeoutEndsChild ==
  /\ prewarmer.pc = "up"
  /\ prewarmer.last_launch.server # 0
  /\ ~prewarmer.last_launch.arrived
  /\ ~prewarmer.last_launch.ok
  /\ prewarmer.last_launch.server \notin prewarmer.procs
  /\ \A entry \in ReturnedServers : entry.server # prewarmer.last_launch.server

-----------------------------------------------------------------------------
(* C40: who owns a browser server *)

\* the entries of the two ready stacks, headless first
ReadyEntries == prewarm_headless \o prewarm_vnc

\* no browser server is in the ready stacks twice, none of them belongs to a
\* handle, each stack holds entries of its kind, no two handles have the same
\* browser server and no two sessions of the table the same VncSession
OwnedOnce ==
  /\ \A i, j \in DOMAIN ReadyEntries :
       i # j => ReadyEntries[i].server # ReadyEntries[j].server
  /\ \A i \in DOMAIN ReadyEntries, id \in DOMAIN handles :
       /\ ReadyEntries[i].server # handles[id].server
       /\ id \in sessions /\ ReadyEntries[i].vnc_session # None
            => ReadyEntries[i].vnc_session # handles[id].vnc_session
  /\ \A i \in DOMAIN prewarm_headless :
       prewarm_headless[i].headless /\ prewarm_headless[i].vnc_session = None
  /\ \A i \in DOMAIN prewarm_vnc :
       ~prewarm_vnc[i].headless /\ prewarm_vnc[i].vnc_session # None
  /\ \A i, j \in DOMAIN handles : i # j => handles[i].server # handles[j].server
  /\ \A i, j \in sessions :
       (i # j /\ handles[i].vnc_session # None)
         => handles[i].vnc_session # handles[j].vnc_session

\* a create() that ends in this step: its handle took the top of the VNC
\* stack for vnc=true, the top of the headless stack for vnc=false and
\* headless=true, and the stack lost that entry; else no stack changed
HandedOutOnce ==
  Len(handles') = Len(handles) + 1 =>
    LET h == handles'[Len(handles')] IN
    IF resp'.prewarmed
      THEN IF h.vnc
             THEN /\ prewarm_vnc # << >>
                  /\ h.server = Last(prewarm_vnc).server
                  /\ h.vnc_session = Last(prewarm_vnc).vnc_session
                  /\ prewarm_vnc' = Front(prewarm_vnc)
                  /\ prewarm_headless' = prewarm_headless
             ELSE /\ h.headless
                  /\ prewarm_headless # << >>
                  /\ h.server = Last(prewarm_headless).server
                  /\ h.vnc_session = None
                  /\ prewarm_headless' = Front(prewarm_headless)
                  /\ prewarm_vnc' = prewarm_vnc
      ELSE /\ prewarm_headless' = prewarm_headless
           /\ prewarm_vnc' = prewarm_vnc

\* C40: no browser server is owned twice: a ready entry goes to at most one
\* create() and leaves its stack, acquire returns only an entry of the
\* requested kind, and no two sessions share a browser server or a VncSession
C40_ServerOwnedOnce == []OwnedOnce /\ [][HandedOutOnce]_vars

\* a create() was served from a ready stack while another create() awaits
\* the launch of its own browser server
C40_WitnessConcurrent ==
  /\ creating # {}
  /\ resp.op = "create"
  /\ resp.ok
  /\ resp.prewarmed
  /\ handles[resp.id].server \notin {c.server : c \in creating}

\* two sessions of the table came from the two ready stacks, one with VNC and
\* one headless
C40_Witness ==
  /\ prewarm_headless = << >>
  /\ prewarm_vnc = << >>
  /\ \E i, j \in sessions :
       /\ handles[i].vnc /\ handles[i].server = WarmVnc[1].server
       /\ handles[i].vnc_session = WarmVnc[1].vnc_session
       /\ ~handles[j].vnc /\ handles[j].headless
       /\ handles[j].server = WarmHeadless[1].server

\* a request with vnc=false and headless=false was served while the
\* headless stack held an entry, and launched a browser server of its own
C40_WitnessNoneForHeaded ==
  /\ resp.op = "create"
  /\ resp.ok
  /\ ~resp.prewarmed
  /\ prewarm_headless # << >>
  /\ ~handles[resp.id].vnc
  /\ ~handles[resp.id].headless

====
